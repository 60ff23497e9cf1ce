---------------------------- MODULE SolvingServer ----------------------------
(***************************************************************************)
(* The server that asks the solver on behalf of the HTTP and DNS front     *)
(* ends (psp/runner_solver.rb), with the Question it creates for each      *)
(* request (psp/lib/tactic_solver/question.rb). All run in one reactor.    *)
(***************************************************************************)
EXTENDS Naturals, Sequences

CONSTANTS
    Connections, Requests,
    On,            \* the connection each request comes in on
    MaxAnswers     \* bound on the answers the solver has for a request

ASSUME ServerAssumption ==
    /\ On \in [Requests -> Connections]
    /\ MaxAnswers \in Nat

VARIABLES
    alive,       \* no handler of the reactor has raised an exception
    open,          \* the connections that are not closed
    replies,       \* the status of each line sent to each connection
    received,      \* @received_results of each connection
    due,           \* the requests whose timer of 30 seconds is set
    subscription,  \* what the solver knows of each Question
    mail,          \* answers the solver has sent and the Question has not read
    calls,         \* how often each Question ran its callback
    fired          \* how many of the timers this set have fired

vars == <<alive, open, replies, received, due, subscription, mail, calls, fired>>

Subscriptions == {"none", "sent", "held", "leaving", "left"}

TypeOK ==
    /\ alive \in BOOLEAN
    /\ open \subseteq Connections
    /\ replies \in [Connections -> Seq({"OK", "FAILED"})]
    /\ received \in [Connections -> BOOLEAN]
    /\ due \subseteq Requests
    /\ subscription \in [Requests -> Subscriptions]
    /\ mail \in [Requests -> Nat]
    /\ calls \in [Requests -> Nat]
    /\ fired \in [Requests -> Nat]
    /\ \A r \in Requests : fired[r] <= calls[r] /\ calls[r] + mail[r] <= MaxAnswers

Init ==
    /\ alive = TRUE
    /\ open = Connections
    /\ replies = [c \in Connections |-> <<>>]
    /\ received = [c \in Connections |-> FALSE]
    /\ due = {}
    /\ subscription = [r \in Requests |-> "none"]
    /\ mail = [r \in Requests |-> 0]
    /\ calls = [r \in Requests |-> 0]
    /\ fired = [r \in Requests |-> 0]

-----------------------------------------------------------------------------
(* TimeoutOwnAnswer and StopUnheard are faulty variants: each breaks a     *)
(* property checked below.                                                 *)

Arrives(r) == alive /\ On[r] \in open /\ subscription[r] = "none"

\* receive_data of one request: its Question tells the solver what it needs, a
\* timer is set, and "terminate" closes the connection without an answer.
Receive(r, terminate) ==
    /\ Arrives(r)
    /\ subscription' = [subscription EXCEPT ![r] = "sent"]
    /\ due' = due \cup {r}
    /\ open' = IF terminate THEN open \ {On[r]} ELSE open
    /\ UNCHANGED <<alive, replies, received, mail, calls, fired>>

\* Two requests in one segment are not JSON, and nothing rescues the error.
ReceiveTwo(r, s) ==
    /\ r # s /\ On[r] = On[s]
    /\ Arrives(r) /\ Arrives(s)
    /\ alive' = FALSE /\ open' = {}
    /\ UNCHANGED <<replies, received, due, subscription, mail, calls, fired>>

SolverSubscribes(r) ==
    /\ alive /\ subscription[r] = "sent"
    /\ subscription' = [subscription EXCEPT ![r] = "held"]
    /\ UNCHANGED <<alive, open, replies, received, due, mail, calls, fired>>

SolverAnswers(r) ==
    /\ alive /\ subscription[r] \in {"held", "leaving"}
    /\ calls[r] + mail[r] < MaxAnswers
    /\ mail' = [mail EXCEPT ![r] = @ + 1]
    /\ UNCHANGED <<alive, open, replies, received, due, subscription, calls, fired>>

SolverUnsubscribes(r) ==
    /\ alive /\ subscription[r] = "leaving"
    /\ subscription' = [subscription EXCEPT ![r] = "left"]
    /\ UNCHANGED <<alive, open, replies, received, due, mail, calls, fired>>

Line(c, status) ==
    IF c \in open THEN [replies EXCEPT ![c] = Append(@, status)] ELSE replies

\* The Question's callback, once for the answers a timestep reads. Until the
\* Question is stopped more may follow, and each sets a timer of its own.
Answered(r, n) ==
    /\ alive /\ fired[r] = 0
    /\ n \in 1 .. mail[r]
    /\ mail' = [mail EXCEPT ![r] = @ - n]
    /\ calls' = [calls EXCEPT ![r] = @ + 1]
    /\ received' = [received EXCEPT ![On[r]] = TRUE]
    /\ replies' = Line(On[r], "OK")
    /\ UNCHANGED <<alive, open, due, subscription, fired>>

StopUnheard(r) ==
    /\ alive /\ fired[r] < calls[r]
    /\ fired' = [fired EXCEPT ![r] = @ + 1]
    /\ UNCHANGED <<alive, open, replies, received, due, subscription, mail, calls>>

\* terminate_question's timer of 0.1 seconds. A second one finds the Question
\* stopped; what sending from it does is not specified.
StopQuestion(r) ==
    /\ alive /\ fired[r] < calls[r]
    /\ fired' = [fired EXCEPT ![r] = @ + 1]
    /\ IF fired[r] = 0
       THEN subscription' = [subscription EXCEPT ![r] = "leaving"] /\ UNCHANGED <<alive, open>>
       ELSE /\ UNCHANGED subscription
            /\ \/ UNCHANGED <<alive, open>>
               \/ alive' = FALSE /\ open' = {}
    /\ UNCHANGED <<replies, received, due, mail, calls>>

TimeoutOwnAnswer(r) ==
    /\ alive /\ r \in due
    /\ due' = due \ {r}
    /\ replies' = IF calls[r] > 0 THEN replies ELSE Line(On[r], "FAILED")
    /\ UNCHANGED <<alive, open, received, subscription, mail, calls, fired>>

\* The timer of 30 seconds looks at what the connection received, whichever of
\* its requests that answered.
Timeout(r) ==
    /\ alive /\ r \in due
    /\ due' = due \ {r}
    /\ replies' = IF received[On[r]] THEN replies ELSE Line(On[r], "FAILED")
    /\ UNCHANGED <<alive, open, received, subscription, mail, calls, fired>>

Close(c) ==
    /\ alive /\ c \in open
    /\ open' = open \ {c}
    /\ UNCHANGED <<alive, replies, received, due, subscription, mail, calls, fired>>

Next ==
    \/ \E r \in Requests :
           \/ SolverSubscribes(r) \/ SolverAnswers(r) \/ SolverUnsubscribes(r)
           \/ StopQuestion(r) \/ Timeout(r)
           \/ \E terminate \in BOOLEAN : Receive(r, terminate)
           \/ \E n \in 1 .. MaxAnswers : Answered(r, n)
           \/ \E s \in Requests : ReceiveTwo(r, s)
    \/ \E c \in Connections : Close(c)

Spec == Init /\ [][Next]_vars

\* The reactor fires its timers, and the solver reads what it is sent.
Fairness ==
    \A r \in Requests : WF_vars(StopQuestion(r)) /\ WF_vars(Timeout(r))
                        /\ WF_vars(SolverUnsubscribes(r))

FairSpec == Spec /\ Fairness

-----------------------------------------------------------------------------
(* Properties.                                                             *)

Status(c) ==
    IF c \notin open THEN "closed"
    ELSE IF replies[c] # <<>>
         THEN IF replies[c][Len(replies[c])] = "OK" THEN "answered" ELSE "failed"
    ELSE IF \E r \in Requests : On[r] = c /\ subscription[r] # "none" THEN "waiting"
    ELSE "idle"

Service == INSTANCE ReplyService WITH status <- [c \in Connections |-> Status(c)]

\* The server is a reply service: a connection that asked is told something
\* within the 30 seconds, and never that its request failed after it was
\* answered, although each request has its timer and the answers share a flag.
ServesReplies == Service!Spec

\* A Question that was answered leaves the solver's subscribers, however many
\* answers ran its callback before its first timer, unless the reactor ended.
AnsweredLeaves ==
    \A r \in Requests : calls[r] > 0 ~> (subscription[r] = "left" \/ ~alive)
=============================================================================
