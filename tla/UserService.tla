---------------------------- MODULE UserService ----------------------------
(***************************************************************************)
(* UserService over the connection pool and the users table of schema.sql. *)
(*                                                                         *)
(* Every method is the same frame: give up if there is no pool; Acquire a  *)
(* guard; open a pqxx::work on its connection; one statement; commit if it *)
(* writes.  On every path out, by return or by exception, the work goes    *)
(* first (a transaction not committed is rolled back) and then the guard.  *)
(* A thread's place in it is that of the pool (pc), whether the answer is  *)
(* known, and whether a transaction is open on its connection.             *)
(*                                                                         *)
(* The database is external: READ COMMITTED, one statement per transaction, *)
(* a unique index on the name that makes an insert wait for another open   *)
(* one of the same name, and a sequence of ids that no rollback takes back.*)
(***************************************************************************)
EXTENDS Integers, Sequences, FiniteSets

CONSTANTS Threads, Conns, PoolSize, MaxCalls, NoConn,   \* as in PostgrePool
          Requests,    \* what is asked for
          NoCall, Undecided,
          NoTx         \* no transaction is open

VARIABLES pool, initialized, closing, pc, held, calls, broken, tried, terminated,
          table,     \* the committed rows of users
          nextId,    \* the sequence behind the SERIAL id
          tx,        \* the transaction open on each connection: rows to add and to remove
          call,      \* the request each thread is in
          answer     \* what it will return

poolVars == <<pool, initialized, closing, pc, held, calls, broken, tried, terminated>>
vars == <<poolVars, table, nextId, tx, call, answer>>

Pool == INSTANCE PostgrePool

Row == [id : Nat, name : STRING, password : [sha256 : STRING]]
Transactions == [add : SUBSET Row, remove : SUBSET Row]
Answers == [ok : BOOLEAN, users : SUBSET [id : Nat, name : STRING]]
AllRequests ==
    [method : {"Register", "Login"}, name : STRING, password : STRING]
      \cup [method : {"GetUserById", "DeleteUser"}, id : Int]
      \cup [method : {"GetUserByUsername"}, name : STRING]
      \cup [method : {"GetAllUsers"}, limit : Nat, offset : Nat]

ASSUME ServiceAssumption == /\ Pool!PoolAssumption
                            /\ Requests \subseteq AllRequests /\ NoCall \notin AllRequests
                            /\ Undecided \notin Answers /\ NoTx \notin Transactions

Said(ok, found) == [ok |-> ok, users |-> found]
Failure == Said(FALSE, {})
Transaction(add, remove) == [add |-> add, remove |-> remove]
Fill(t, a) == answer' = [answer EXCEPT ![t] = a]

(* A digest stands for its password and is not the password.               *)
HashPassword(p) == [sha256 |-> p]
VerifyPassword(p, hash) == HashPassword(p) = hash

Init ==
    /\ Pool!Init
    /\ table = {} /\ nextId = 1
    /\ tx = [c \in Conns |-> NoTx]
    /\ call = [t \in Threads |-> NoCall]
    /\ answer = [t \in Threads |-> Undecided]

-----------------------------------------------------------------------------
(* A call begins.  Register and Login refuse an empty name or password; the *)
(* others go on to IsInitialized.                                          *)
HasEmpty(r) == r.method \in {"Register", "Login"} /\ (r.name = "" \/ r.password = "")

\* Nobody asks to delete an id that no committed row can have had.
Known(r) == r.method = "DeleteUser" =>
    /\ r.id < nextId
    /\ \A c \in Conns : tx[c] # NoTx => \A u \in tx[c].add : u.id # r.id

Call(t, r) ==
    /\ call[t] = NoCall /\ Known(r)
    /\ call' = [call EXCEPT ![t] = r]
    /\ IF HasEmpty(r)
       THEN tried /\ ~terminated /\ Fill(t, Failure) /\ UNCHANGED poolVars
       ELSE Pool!BeginCall(t) /\ Fill(t, IF pc'[t] = "checked" THEN Undecided ELSE Failure)
    /\ UNCHANGED <<table, nextId, tx>>

\* Slip: the exception is not caught; the call never gets its answer.
Acquired_Uncaught(t) == UNCHANGED <<table, nextId, tx, call, answer>>

(* Acquire returns a guard, sleeps, or throws, which each method catches.  *)
Acquired(t) ==
    /\ Fill(t, IF pc'[t] = "idle" THEN Failure ELSE Undecided)
    /\ UNCHANGED <<table, nextId, tx, call>>

Acquire(t) == call[t] # NoCall /\ Pool!Acquire(t) /\ Acquired(t)
WakeUp(t) == Pool!WakeUp(t) /\ Acquired(t)

-----------------------------------------------------------------------------
(* The statement of each method, with the BEGIN of its pqxx::work.         *)
Ready(t) == /\ ~terminated /\ pc[t] = "holding" /\ answer[t] = Undecided
            /\ held[t] \notin broken /\ tx[held[t]] = NoTx

Begin(t, add, remove) == tx' = [tx EXCEPT ![held[t]] = Transaction(add, remove)]

\* The rows other open transactions have added or removed are locked.
Pending == UNION {tx[c].add \cup tx[c].remove : c \in {d \in Conns : tx[d] # NoTx}}

NameTaken(n) == \E u \in table : u.name = n

\* The INSERT of Register: done, or unique_violation, or refused for some
\* other reason (a value longer than its column).
Insert(t) ==
    /\ Ready(t) /\ call[t].method = "Register"
    /\ \A u \in Pending : u.name # call[t].name
    /\ nextId' = nextId + 1
    /\ \/ /\ ~NameTaken(call[t].name)
          /\ Begin(t, {[id |-> nextId, name |-> call[t].name,
                        password |-> HashPassword(call[t].password)]}, {})
          /\ UNCHANGED answer
       \/ Begin(t, {}, {}) /\ Fill(t, Failure)
    /\ UNCHANGED <<poolVars, table, call>>

Delete(t) ==
    /\ Ready(t) /\ call[t].method = "DeleteUser"
    /\ \A u \in Pending : u.id # call[t].id
    /\ Begin(t, {}, {u \in table : u.id = call[t].id})
    /\ UNCHANGED <<poolVars, table, nextId, call, answer>>

\* ORDER BY id LIMIT r.limit OFFSET r.offset
Position(u) == Cardinality({v.id : v \in {w \in table : w.id < u.id}})
InPage(r, u) == r.offset <= Position(u) /\ Position(u) < r.offset + r.limit

\* The rows a SELECT returns, and of those the ones the method does.
Selected(r) ==
    CASE r.method = "Login" ->
           {u \in table : u.name = r.name /\ VerifyPassword(r.password, u.password)}
      [] r.method = "GetUserById" -> {u \in table : u.id = r.id}
      [] r.method = "GetUserByUsername" -> {u \in table : u.name = r.name}
      [] r.method = "GetAllUsers" -> {u \in table : InPage(r, u)}

Select(t) ==
    /\ Ready(t) /\ call[t].method \notin {"Register", "DeleteUser"}
    /\ Begin(t, {}, {})
    /\ LET found == {[id |-> u.id, name |-> u.name] : u \in Selected(call[t])}
       IN  Fill(t, Said(found # {}, found))
    /\ UNCHANGED <<poolVars, table, nextId, call>>

\* BEGIN, the statement or commit finds the connection lost and throws.
Throw(t) ==
    /\ ~terminated /\ pc[t] = "holding" /\ answer[t] = Undecided
    /\ held[t] \in broken
    /\ Fill(t, Failure)
    /\ UNCHANGED <<poolVars, table, nextId, tx, call>>

-----------------------------------------------------------------------------
(* commit(), on a connection that is there.                                *)
Committing(t) == /\ ~terminated /\ pc[t] = "holding" /\ answer[t] = Undecided
                 /\ tx[held[t]] # NoTx

CloseTx(c) == tx' = [tx EXCEPT ![c] = NoTx]

\* Slip: nothing is committed.
Apply_Nothing(c) == UNCHANGED table

Apply(c) == table' = (table \ tx[c].remove) \cup tx[c].add

Commit(t) ==
    /\ Committing(t)
    /\ Apply(held[t]) /\ CloseTx(held[t])
    /\ Fill(t, Said(TRUE, {}))
    /\ UNCHANGED <<poolVars, nextId, call>>

\* The connection is lost during commit: it throws, and the server has
\* committed or has not.
CommitInDoubt(t) ==
    /\ Committing(t)
    /\ \E c \in Conns : c = held[t] /\ Pool!ConnectionLost(c)
    /\ Apply(held[t]) \/ UNCHANGED table
    /\ CloseTx(held[t])
    /\ Fill(t, Failure)
    /\ UNCHANGED <<nextId, call>>

\* Slip: the guard goes first, and the work with its transaction stays.
Return_First(t) ==
    /\ pc[t] = "holding" /\ answer[t] # Undecided
    /\ Pool!Return(t)
    /\ UNCHANGED <<table, nextId, tx, call, answer>>

(* ~pqxx::work, and then ~ConnectionGuard.                                 *)
EndWork(t) ==
    /\ ~terminated /\ pc[t] = "holding" /\ answer[t] # Undecided
    /\ tx[held[t]] # NoTx
    /\ CloseTx(held[t])
    /\ UNCHANGED <<poolVars, table, nextId, call, answer>>

Return(t) ==
    /\ pc[t] = "holding" /\ answer[t] # Undecided /\ tx[held[t]] = NoTx
    /\ Pool!Return(t)
    /\ UNCHANGED <<table, nextId, tx, call, answer>>

Reply(t) ==
    /\ ~terminated /\ pc[t] = "idle" /\ answer[t] # Undecided
    /\ call' = [call EXCEPT ![t] = NoCall]
    /\ Fill(t, Undecided)
    /\ UNCHANGED <<poolVars, table, nextId, tx>>

-----------------------------------------------------------------------------
(* The pool is opened and closed, threads wake up for nothing, connections *)
(* are lost and their transactions with them.                              *)
Unused == UNCHANGED <<table, nextId, call, answer>>

ConnectionLost(c) == Pool!ConnectionLost(c) /\ CloseTx(c) /\ Unused

Environment ==
    \/ /\ \/ \E n \in 0 .. PoolSize : Pool!InitPool(n)
          \/ Pool!Close
          \/ \E t \in Threads : Pool!SpuriousWakeUp(t)
       /\ UNCHANGED tx /\ Unused
    \/ \E c \in Conns : ConnectionLost(c)

GoOn(t) == \/ Acquire(t) \/ WakeUp(t) \/ Insert(t) \/ Delete(t) \/ Select(t) \/ Throw(t)
           \/ Commit(t) \/ CommitInDoubt(t) \/ EndWork(t) \/ Return(t) \/ Reply(t)

Next == \/ \E t \in Threads : GoOn(t) \/ \E r \in Requests : Call(t, r)
        \/ Environment

Spec == Init /\ [][Next]_vars

-----------------------------------------------------------------------------
(* The variables of the service have their types; a thread is in a call    *)
(* exactly if it has anything to do with the pool or an answer to return.  *)
TypeOK ==
    /\ table \in SUBSET Row /\ nextId \in Nat
    /\ tx \in [Conns -> Transactions \cup {NoTx}]
    /\ call \in [Threads -> Requests \cup {NoCall}]
    /\ answer \in [Threads -> Answers \cup {Undecided}]
    /\ \A t \in Threads :
         /\ (call[t] = NoCall) <=> (pc[t] = "idle" /\ answer[t] = Undecided)
         /\ pc[t] \notin {"idle", "holding"} => answer[t] = Undecided

(* A connection never goes back to the pool with a transaction open: the   *)
(* next call that gets it would commit what the last one had given up.     *)
(* Only the order of two local variables in each method sees to it.        *)
CleanConnections ==
    \A c \in Conns : tx[c] # NoTx => \E t \in Threads : pc[t] = "holding" /\ held[t] = c

(* UserService keeps the promises of UserRegistry: with calls that overlap, *)
(* transactions that wait for each other, connections that are lost at any *)
(* point and a pool that closes, each call is decided in one instant       *)
(* against one state of the users, and TRUE means what it says.            *)
Shown(u) == [id |-> u.id, name |-> u.name, password |-> u.password.sha256]
Users == {Shown(u) : u \in table}

Registry == INSTANCE UserRegistry WITH users <- Users

ImplementsRegistry == Registry!Spec

(* What a call waits for that only another call can give it: a notification *)
(* of the pool, or the end of a transaction that has what it wants to write. *)
WaitsForLock(t) ==
    /\ Ready(t)
    /\ \E u \in Pending : \/ call[t].method = "Register" /\ u.name = call[t].name
                          \/ call[t].method = "DeleteUser" /\ u.id = call[t].id

Waits(t) == pc[t] = "waiting" \/ WaitsForLock(t)

(* No circle of waiting: as long as any call is not over, not all of them  *)
(* wait.  A call that sleeps in Acquire waits for those that have a        *)
(* connection, and these may wait for each other's transactions.           *)
NoCircularWait ==
    ~terminated /\ (\E t \in Threads : call[t] # NoCall) =>
        \E t \in Threads : call[t] # NoCall /\ ~Waits(t)

(* And there is nothing else a call can get stuck in: at every place of    *)
(* every method, whatever has been lost or closed, there is a way on.      *)
OnlyWaitersAreBlocked ==
    ~terminated => \A t \in Threads : call[t] # NoCall /\ ~Waits(t) => ENABLED GoOn(t)

(* HandleApiRegister (Session.cpp) answers every FALSE of Register with 409 *)
(* and "Username already exists": then it does.  (Said where nobody deletes *)
(* users.)                                                                  *)
ConflictMeansTaken ==
    \A t \in Threads : answer[t] = Failure /\ call[t].method = "Register" /\ ~HasEmpty(call[t])
                         => NameTaken(call[t].name)
=============================================================================
