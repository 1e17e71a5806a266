----------------------------- MODULE MCSession -----------------------------
(* The clients and the disk that TLC checks Session with.                  *)
EXTENDS Session

Ask(m, p, c, n) ==
    [method |-> m, path |-> p, connection |-> c, length |-> n,
     body |-> IF n > 0 THEN [i \in 1 .. n |-> Byte] ELSE <<>>]

MCApiPaths == {"/api/health", "/api/login", "/api/register", "/api/users",
               "/api/user", "/api/none"}
MCFileKind == ("/index.html" :> "regular") @@ ("/secret" :> "unreadable")
                @@ ("/up" :> "outside") @@ ("/dir" :> "directory")

Home == Ask("GET", "/", "keep-alive", Absent)
Login == Ask("POST", "/api/login", "Keep-Alive", 1)
User == Ask("GET", "/api/user", "close", 1)
Quick == Ask("GET", "/api/health", "", Absent)
Garbage == Ask("INVALID", "", "", Absent)

\* Every kind of request, alone.
Singles == {<<Ask("GET", p, "keep-alive", Absent)>> :
              p \in {"/secret", "/up", "/dir", "/gone", ""} \cup MCApiPaths}
\* Conversations: kept alive, with a body, closed by the second answer,
\* garbled in the middle, with a length that is no number.
Talks == {<<Ask("POST", "/api/register", "keep-alive", 1)>>, <<Home, Login, Home>>,
          <<Login, User>>, <<Home, Quick>>, <<Home, Garbage, Home>>,
          <<Ask("GET", "/gone", "keep-alive", Absent), Home>>,
          <<Home, Ask("POST", "/api/register", "", NotANumber)>>}

\* The conversations of the liveness runs.
PipelinedPlans == {<<Home, Home>>}
LivePlans == {<<Home, Quick>>, <<Garbage>>, <<Home, Login, Home>>,
              <<Ask("GET", "/dir", "keep-alive", Absent), User>>}

MCPlans == Singles \cup Talks
=============================================================================
