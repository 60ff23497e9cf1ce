---------------------------- MODULE ReplyService ----------------------------
(***************************************************************************)
(* What the server in front of the solver promises the clients of its      *)
(* connections (psp/runner_solver.rb): who asks is told something, and who *)
(* was given an answer is not told afterwards that there is none.          *)
(***************************************************************************)
CONSTANT Connections

VARIABLE status   \* of each connection

Statuses == {"idle", "waiting", "failed", "answered", "closed"}

Init == status = [c \in Connections |-> "idle"]

Change(c, from, to) == status[c] \in from /\ status' = [status EXCEPT ![c] = to]

Ask(c) == Change(c, {"idle"}, "waiting")
Fail(c) == Change(c, {"waiting"}, "failed")
Answer(c) == Change(c, {"waiting", "failed"}, "answered")
Close(c) == Change(c, Statuses \ {"closed"}, "closed")

\* The server ends, and its connections with it.
Down == status' = [c \in Connections |-> "closed"]

Next == Down \/ \E c \in Connections : Ask(c) \/ Fail(c) \/ Answer(c) \/ Close(c)

Told(c) == status[c] = "waiting" ~> status[c] # "waiting"

Safety == Init /\ [][Next]_status

Spec == Safety /\ \A c \in Connections : Told(c)
=============================================================================
