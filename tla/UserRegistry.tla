---------------------------- MODULE UserRegistry ----------------------------
(***************************************************************************)
(* What UserService promises its callers, as if every call were decided in *)
(* one instant by the one thread that looks at one set of users: no pool,  *)
(* no connections, no transactions.  TRUE means that the call has taken    *)
(* effect; FALSE, and an empty result, may also mean that it was not able  *)
(* to say, and then a Register or a DeleteUser may have taken effect too.  *)
(***************************************************************************)
EXTENDS Integers, FiniteSets

CONSTANTS Threads, Requests,
          NoCall,      \* the thread is in no call
          Undecided    \* the call has no answer yet

VARIABLES users, call, answer

vars == <<users, call, answer>>

Said(ok, found) == [ok |-> ok, users |-> found]
Failure == Said(FALSE, {})

\* A user as the callers see it.
Public(u) == [id |-> u.id, name |-> u.name]

Position(u) == Cardinality({v.id : v \in {w \in users : w.id < u.id}})

\* Whether request r is about user u.
Asked(r, u) ==
    \/ r.method = "Login" /\ u.name = r.name /\ u.password = r.password
    \/ r.method = "GetUserById" /\ u.id = r.id
    \/ r.method = "GetUserByUsername" /\ u.name = r.name
    \/ r.method = "GetAllUsers" /\ Position(u) \in r.offset .. r.offset + r.limit - 1

Init == /\ users = {}
        /\ call = [t \in Threads |-> NoCall]
        /\ answer = [t \in Threads |-> Undecided]

\* Some calls fail before they have begun: an argument is empty, or there
\* is no database.
Ask(t, r) == /\ call[t] = NoCall /\ answer[t] = Undecided
             /\ call' = [call EXCEPT ![t] = r]
             /\ \E a \in {Undecided, Failure} : answer' = [answer EXCEPT ![t] = a]
             /\ UNCHANGED users

Decide(t, a) == /\ call[t] # NoCall /\ answer[t] = Undecided
                /\ answer' = [answer EXCEPT ![t] = a]
                /\ UNCHANGED call

Register(t) ==
    /\ call[t] # NoCall /\ call[t].method = "Register"
    /\ call[t].name # "" /\ call[t].password # ""
    /\ \A u \in users : u.name # call[t].name
    /\ \E u \in users' : /\ u.name = call[t].name /\ u.password = call[t].password
                         /\ \A v \in users : u.id # v.id
                         /\ users' = users \cup {u}
    /\ \E ok \in BOOLEAN : Decide(t, Said(ok, {}))

DeleteUser(t) ==
    /\ call[t] # NoCall /\ call[t].method = "DeleteUser"
    /\ users' = {u \in users : u.id # call[t].id}
    /\ \E ok \in BOOLEAN : Decide(t, Said(ok, {}))

Find(t) ==
    /\ call[t] # NoCall /\ call[t].method \notin {"Register", "DeleteUser"}
    /\ LET found == {Public(u) : u \in {v \in users : Asked(call[t], v)}}
       IN  Decide(t, Said(found # {}, found))
    /\ UNCHANGED users

Fail(t) == Decide(t, Failure) /\ UNCHANGED users

Reply(t) == /\ answer[t] # Undecided
            /\ call' = [call EXCEPT ![t] = NoCall]
            /\ answer' = [answer EXCEPT ![t] = Undecided]
            /\ UNCHANGED users

Next == \E t \in Threads : \/ \E r \in Requests : Ask(t, r)
                           \/ Register(t) \/ DeleteUser(t) \/ Find(t) \/ Fail(t) \/ Reply(t)

Spec == Init /\ [][Next]_vars
=============================================================================
