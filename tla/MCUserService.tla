--------------------------- MODULE MCUserService ---------------------------
(* The requests that TLC checks UserService with.                          *)
EXTENDS UserService, TLC

NewUser(n, p) == [method |-> "Register", name |-> n, password |-> p]
LogIn(n, p) == [method |-> "Login", name |-> n, password |-> p]

Writes == {NewUser("ann", "p"), NewUser("ann", "q"), [method |-> "DeleteUser", id |-> 1]}
Reads == {LogIn("ann", "p"), LogIn("", "p"), [method |-> "GetUserById", id |-> 1],
          [method |-> "GetUserByUsername", name |-> "ann"],
          [method |-> "GetAllUsers", limit |-> 1, offset |-> 0]}

MixedRequests == Writes \cup Reads \cup {NewUser("bob", "p")}
RegisterRequests == {NewUser("ann", "p"), NewUser("ann", ""), NewUser("bob", "q")}

\* Threads and connections are interchangeable in every property of the run.
Symmetry == Permutations(Threads) \cup Permutations(Conns)
=============================================================================
