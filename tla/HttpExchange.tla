---------------------------- MODULE HttpExchange ----------------------------
(***************************************************************************)
(* What a connection promises its client, without parser, buffers or       *)
(* operations: requests are answered one by one, in the order in which     *)
(* they were sent, none before it was sent in full, none twice, and none   *)
(* once the server has closed the connection.                              *)
(***************************************************************************)
EXTENDS Naturals, Sequences

VARIABLES asked,     \* how many requests the client has sent in full
          answered,  \* the requests answered, in the order of the answers
          open       \* the server has not closed the connection

Init == asked = 0 /\ answered = <<>> /\ open = TRUE

\* One segment may complete several requests.
Ask == asked' >= asked /\ UNCHANGED <<answered, open>>

AnswerNext ==
    /\ open /\ Len(answered) < asked
    /\ answered' = Append(answered, Len(answered) + 1)
    /\ UNCHANGED <<asked, open>>

Close == open /\ open' = FALSE /\ UNCHANGED <<asked, answered>>

Next == Ask \/ AnswerNext \/ Close

Spec == Init /\ [][Next]_<<asked, answered, open>>
=============================================================================
