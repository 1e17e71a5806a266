--------------------------- MODULE ConnectionPool ---------------------------
(***************************************************************************)
(* What PostgrePool promises the calls of UserService, without a queue, a  *)
(* mutex or a condition variable: connections are lent, each to one call   *)
(* at a time and never more than PoolSize of them; a call that asks gets   *)
(* one or is turned away, and is turned away only once the pool has been   *)
(* closed; a pool that could not be opened in full lends nothing.  The     *)
(* process may die of a connection that is given back, and only of that.   *)
(***************************************************************************)
EXTENDS Naturals, FiniteSets

CONSTANTS Threads, Conns, PoolSize,
          NoConn     \* the thread has no connection

VARIABLES phase,     \* "new", then "open" or "failed", "closed" after "open"
          asking,    \* the threads that have asked for a connection
          lent,      \* the connection each thread has
          alive      \* the process has not died

vars == <<phase, asking, lent, alive>>

Borrowers == {t \in Threads : lent[t] # NoConn}

Init == /\ phase = "new" /\ asking = {} /\ alive = TRUE
        /\ lent = [t \in Threads |-> NoConn]

Open == /\ alive /\ phase = "new" /\ phase' \in {"open", "failed"}
        /\ UNCHANGED <<asking, lent, alive>>

Close == alive /\ phase = "open" /\ phase' = "closed" /\ UNCHANGED <<asking, lent, alive>>

Ask(t) == /\ alive /\ phase = "open" /\ t \notin asking \cup Borrowers
          /\ asking' = asking \cup {t}
          /\ UNCHANGED <<phase, lent, alive>>

Lend(t, c) == /\ alive /\ phase = "open" /\ t \in asking
              /\ Cardinality(Borrowers) < PoolSize
              /\ \A u \in Threads : lent[u] # c
              /\ lent' = [lent EXCEPT ![t] = c] /\ asking' = asking \ {t}
              /\ UNCHANGED <<phase, alive>>

TurnAway(t) == /\ alive /\ phase = "closed" /\ t \in asking
               /\ asking' = asking \ {t}
               /\ UNCHANGED <<phase, lent, alive>>

GiveBack(t) == /\ alive /\ t \in Borrowers
               /\ lent' = [lent EXCEPT ![t] = NoConn]
               /\ UNCHANGED <<phase, asking, alive>>

Die == alive /\ phase = "open" /\ Borrowers # {} /\ alive' = FALSE /\ UNCHANGED <<phase, asking, lent>>

Next == \/ Open \/ Close \/ Die
        \/ \E t \in Threads : \/ Ask(t) \/ TurnAway(t) \/ GiveBack(t)
                              \/ \E c \in Conns : Lend(t, c)

Spec == Init /\ [][Next]_vars
=============================================================================
