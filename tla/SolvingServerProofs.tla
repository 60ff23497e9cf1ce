------------------------- MODULE SolvingServerProofs -------------------------
(***************************************************************************)
(* That the solving server implements the safety part of ReplyService, for *)
(* any connections, requests and numbers of answers.                       *)
(***************************************************************************)
EXTENDS SolvingServer, TLAPS

\* What replies, flags and subscriptions are, as far as the service needs it.
Typed ==
    /\ replies \in [Connections -> Seq({"OK", "FAILED"})]
    /\ received \in [Connections -> BOOLEAN]
    /\ subscription \in [Requests -> Subscriptions]
    /\ mail \in [Requests -> Nat]
    /\ calls \in [Requests -> Nat]
    /\ fired \in [Requests -> Nat]
    /\ due \subseteq Requests
    /\ open \subseteq Connections

\* Only a Question that was made is answered, stopped or timed.
Asked ==
    \A r \in Requests :
        mail[r] > 0 \/ calls[r] > 0 \/ r \in due => subscription[r] # "none"

\* The flag of a connection is set before a line says OK.
Flagged ==
    \A c \in Connections : \A i \in 1 .. Len(replies[c]) :
        replies[c][i] = "OK" => received[c]

IInv == Typed /\ Asked /\ Flagged

\* A line is appended to the replies of an open connection.
LEMMA LineAppends ==
    ASSUME Typed, NEW c \in Connections, NEW s \in {"OK", "FAILED"}
    PROVE  /\ Line(c, s) \in [Connections -> Seq({"OK", "FAILED"})]
           /\ \A d \in Connections : d # c \/ c \notin open => Line(c, s)[d] = replies[d]
           /\ c \in open => Line(c, s)[c] = Append(replies[c], s)
BY DEF Typed, Line

LEMMA Appended ==
    ASSUME NEW q \in Seq({"OK", "FAILED"}), NEW s \in {"OK", "FAILED"}
    PROVE  /\ Append(q, s) # <<>> /\ Append(q, s) \in Seq({"OK", "FAILED"})
           /\ Len(Append(q, s)) = Len(q) + 1 /\ Append(q, s)[Len(q) + 1] = s
           /\ \A i \in 1 .. Len(q) : Append(q, s)[i] = q[i]
           /\ Len(q) \in Nat
OBVIOUS

\* The invariant holds at first and every step preserves it.
THEOREM ServerInvariant == Spec => []IInv
<1>1. Init => IInv
  BY ServerAssumption DEF Init, IInv, Typed, Asked, Flagged, Subscriptions
<1>2. IInv /\ [Next]_vars => IInv'
  <2> SUFFICES ASSUME IInv, [Next]_vars PROVE IInv'
    OBVIOUS
  <2> USE DEF IInv, Typed, Asked, Flagged, Subscriptions
  <2>1. ASSUME NEW r \in Requests, NEW terminate \in BOOLEAN, Receive(r, terminate)
        PROVE IInv'
    BY <2>1 DEF Receive
  <2>2. ASSUME NEW r \in Requests, NEW s \in Requests, ReceiveTwo(r, s)
        PROVE IInv'
    BY <2>2 DEF ReceiveTwo
  <2>3. ASSUME NEW r \in Requests, SolverSubscribes(r)
        PROVE IInv'
    BY <2>3 DEF SolverSubscribes
  <2>4. ASSUME NEW r \in Requests, SolverAnswers(r)
        PROVE IInv'
    BY <2>4 DEF SolverAnswers
  <2>5. ASSUME NEW r \in Requests, SolverUnsubscribes(r)
        PROVE IInv'
    BY <2>5 DEF SolverUnsubscribes
  <2>6. ASSUME NEW r \in Requests, NEW n \in 1 .. MaxAnswers, Answered(r, n)
        PROVE IInv'
    <3> DEFINE c == On[r]
    <3>1. c \in Connections
      BY ServerAssumption
    <3>2. n \in Nat /\ n \in 1 .. mail[r] /\ mail' = [mail EXCEPT ![r] = @ - n]
      BY <2>6, ServerAssumption DEF Answered
    <3>3. mail' \in [Requests -> Nat] /\ mail[r] > 0
      BY <3>2
    <3>4. \A q \in Requests : mail'[q] > 0 => mail[q] > 0
      BY <3>2, <3>3
    <3>5. Typed'
      <4>1. calls' \in [Requests -> Nat]
        BY <2>6 DEF Answered
      <4>2. received' \in [Connections -> BOOLEAN]
        BY <2>6, <3>1 DEF Answered
      <4>3. replies' \in [Connections -> Seq({"OK", "FAILED"})]
        BY <2>6, <3>1, LineAppends DEF Answered
      <4> QED BY <2>6, <3>3, <4>1, <4>2, <4>3 DEF Answered
    <3>6. Asked'
      BY <2>6, <3>2, <3>3, <3>4 DEF Answered
    <3>7. Flagged'
      <4> SUFFICES ASSUME NEW d \in Connections, NEW i \in 1 .. Len(replies'[d]),
                          replies'[d][i] = "OK"
                   PROVE  received'[d]
        OBVIOUS
      <4>1. received' = [received EXCEPT ![c] = TRUE] /\ replies' = Line(c, "OK")
        BY <2>6 DEF Answered
      <4>2. CASE d = c
        BY <4>1, <4>2, <3>1
      <4>3. CASE d # c
        BY <4>1, <4>3, <3>1, LineAppends
      <4> QED BY <4>2, <4>3
    <3> QED BY <3>5, <3>6, <3>7
  <2>7. ASSUME NEW r \in Requests, StopQuestion(r)
        PROVE IInv'
    <3>1. /\ fired' = [fired EXCEPT ![r] = @ + 1]
          /\ UNCHANGED <<replies, received, due, mail, calls>>
          /\ open' \in {open, {}}
      BY <2>7 DEF StopQuestion
    <3>2. subscription' \in {subscription, [subscription EXCEPT ![r] = "leaving"]}
      BY <2>7 DEF StopQuestion
    <3>3. Typed'
      <4>1. fired' \in [Requests -> Nat]
        BY <3>1
      <4>2. subscription' \in [Requests -> Subscriptions]
        BY <3>2
      <4>3. open' \subseteq Connections
        BY <3>1
      <4> QED BY <3>1, <4>1, <4>2, <4>3
    <3>4. Asked'
      BY <3>1, <3>2
    <3>5. Flagged'
      BY <3>1
    <3> QED BY <3>3, <3>4, <3>5
  <2>8. ASSUME NEW r \in Requests, Timeout(r)
        PROVE IInv'
    <3> DEFINE c == On[r]
    <3>1. c \in Connections
      BY ServerAssumption
    <3>2. /\ replies' = (IF received[c] THEN replies ELSE Line(c, "FAILED"))
          /\ due' = due \ {r}
          /\ UNCHANGED <<alive, open, received, subscription, mail, calls, fired>>
      BY <2>8 DEF Timeout
    <3>3. Typed'
      BY <3>1, <3>2, LineAppends
    <3>4. Asked'
      BY <3>2
    <3>5. Flagged'
      <4> SUFFICES ASSUME NEW d \in Connections, NEW i \in 1 .. Len(replies'[d]),
                          replies'[d][i] = "OK"
                   PROVE  received[d]
        BY <3>2
      <4>1. CASE replies'[d] = replies[d]
        BY <4>1
      <4>2. CASE replies'[d] # replies[d]
        <5>1. d = c /\ replies'[d] = Append(replies[d], "FAILED")
          BY <4>2, <3>1, <3>2, LineAppends
        <5>2. i \in 1 .. Len(replies[d]) /\ replies'[d][i] = replies[d][i]
          BY <5>1, Appended
        <5> QED BY <5>2
      <4> QED BY <4>1, <4>2
    <3> QED BY <3>3, <3>4, <3>5
  <2>9. ASSUME NEW c \in Connections, Close(c)
        PROVE IInv'
    BY <2>9 DEF Close
  <2>10. CASE UNCHANGED vars
    BY <2>10 DEF vars
  <2> QED
    BY <2>1, <2>2, <2>3, <2>4, <2>5, <2>6, <2>7, <2>8, <2>9, <2>10 DEF Next
<1> QED
  BY <1>1, <1>2, PTL DEF Spec

-----------------------------------------------------------------------------
(* The refinement: each step changes the status of one connection as the   *)
(* service allows, of none, or ends them all.                              *)

Waits(c) == \E r \in Requests : On[r] = c /\ subscription[r] # "none"

\* The cases of a connection's status.
LEMMA StatusCases ==
    ASSUME Typed, NEW c \in Connections
    PROVE  /\ c \notin open <=> Status(c) = "closed"
           /\ c \in open /\ replies[c] # <<>> =>
                  Status(c) = IF replies[c][Len(replies[c])] = "OK"
                              THEN "answered" ELSE "failed"
           /\ c \in open /\ replies[c] = <<>> =>
                  Status(c) = IF Waits(c) THEN "waiting" ELSE "idle"
           /\ Status(c) \in Service!Statuses
BY DEF Status, Waits, Service!Statuses

\* A status depends on nothing but whether the connection is open, the lines it
\* was sent and whether a request came in on it.
LEMMA StatusKept ==
    ASSUME NEW c \in Connections, c \in open' <=> c \in open, replies'[c] = replies[c],
           Waits(c)' <=> Waits(c)
    PROVE  Status(c)' = Status(c)
BY DEF Status, Waits

\* Where the others keep theirs, the change of one is a step of the service.
LEMMA OneChanges ==
    ASSUME NEW c \in Connections,
           \A d \in Connections : d # c => Status(d)' = Status(d),
           \/ Status(c)' = Status(c)
           \/ Status(c) = "idle" /\ Status(c)' = "waiting"
           \/ Status(c) = "waiting" /\ Status(c)' = "failed"
           \/ Status(c) \in {"waiting", "failed"} /\ Status(c)' = "answered"
           \/ Status(c) \in Service!Statuses \ {"closed"} /\ Status(c)' = "closed"
    PROVE  [Service!Next]_([d \in Connections |-> Status(d)])
<1> DEFINE status == [d \in Connections |-> Status(d)]
<1>1. status[c] = Status(c) /\ status'[c] = Status(c)'
  OBVIOUS
<1>2. CASE Status(c)' = Status(c)
  <2>1. status' = status
    BY <1>2
  <2> QED BY <2>1
<1>3. CASE Status(c)' # Status(c)
  <2>1. status' = [status EXCEPT ![c] = Status(c)']
    OBVIOUS
  <2>2. \/ Service!Change(c, {"idle"}, "waiting")
        \/ Service!Change(c, {"waiting"}, "failed")
        \/ Service!Change(c, {"waiting", "failed"}, "answered")
        \/ Service!Change(c, Service!Statuses \ {"closed"}, "closed")
    BY <1>1, <1>3, <2>1 DEF Service!Change
  <2> QED
    BY <2>2 DEF Service!Next, Service!Ask, Service!Fail, Service!Answer, Service!Close
<1> QED BY <1>2, <1>3

\* When no connection's status changes the service stutters, and when all are
\* closed it is down.
LEMMA NoneChanges ==
    ASSUME \A d \in Connections : Status(d)' = Status(d)
    PROVE  [Service!Next]_([d \in Connections |-> Status(d)])
OBVIOUS

LEMMA AllClosed ==
    ASSUME open' = {}
    PROVE  [Service!Next]_([d \in Connections |-> Status(d)])
<1>1. \A d \in Connections : Status(d)' = "closed"
  BY DEF Status
<1>2. [d \in Connections |-> Status(d)]' = [d \in Connections |-> "closed"]
  BY <1>1
<1> QED BY <1>2 DEF Service!Next, Service!Down

\* The server implements the safety part of the service it is meant to offer:
\* no client is told that its request failed after it was answered, and none is
\* told anything it did not ask, for any number of connections and requests.
THEOREM ServiceImplemented == Spec => Service!Safety
<1>1. Init => Service!Init
  <2> SUFFICES ASSUME Init
               PROVE  [c \in Connections |-> Status(c)] = [c \in Connections |-> "idle"]
    BY DEF Service!Init
  <2>1. \A c \in Connections : Status(c) = "idle"
    BY DEF Init, Status
  <2> QED BY <2>1
<1>2. IInv /\ IInv' /\ [Next]_vars => [Service!Next]_([c \in Connections |-> Status(c)])
  <2> SUFFICES ASSUME IInv, IInv', [Next]_vars
               PROVE  [Service!Next]_([c \in Connections |-> Status(c)])
    OBVIOUS
  <2>0. \A r \in Requests : On[r] \in Connections
    BY ServerAssumption
  <2>1. ASSUME NEW r \in Requests, NEW terminate \in BOOLEAN, Receive(r, terminate)
        PROVE  [Service!Next]_([c \in Connections |-> Status(c)])
    <3> DEFINE c == On[r]
    <3>1. c \in Connections /\ c \in open /\ replies' = replies
      BY <2>0, <2>1 DEF Receive, Arrives
    <3>2. open' = IF terminate THEN open \ {c} ELSE open
      BY <2>1 DEF Receive
    <3>3. subscription' = [subscription EXCEPT ![r] = "sent"]
      BY <2>1 DEF Receive
    <3>4. \A d \in Connections : d # c => (Waits(d)' <=> Waits(d))
      BY <3>3 DEF Waits, IInv, Typed
    <3>5. Waits(c)'
      BY <3>3 DEF Waits, IInv, Typed
    <3>6. \A d \in Connections : d # c => Status(d)' = Status(d)
      BY <3>1, <3>2, <3>4, StatusKept
    <3>7. CASE terminate
      <4>1. Status(c)' = "closed"
        BY <3>2, <3>7 DEF Status
      <4>2. Status(c) \in Service!Statuses \ {"closed"}
        BY <3>1, StatusCases DEF IInv
      <4> QED BY <3>1, <3>6, <4>1, <4>2, OneChanges
    <3>8. CASE ~ terminate
      <4>1. c \in open'
        BY <3>1, <3>2, <3>8
      <4>2. Status(c)' = IF replies[c] # <<>> THEN Status(c) ELSE "waiting"
        BY <3>1, <3>5, <4>1 DEF Status, Waits
      <4>3. replies[c] = <<>> => Status(c) \in {"idle", "waiting"}
        BY <3>1, StatusCases DEF IInv
      <4> QED BY <3>1, <3>6, <4>2, <4>3, OneChanges
    <3> QED BY <3>7, <3>8
  <2>2. ASSUME NEW r \in Requests, NEW s \in Requests, ReceiveTwo(r, s)
        PROVE  [Service!Next]_([c \in Connections |-> Status(c)])
    BY <2>2, AllClosed DEF ReceiveTwo
  <2>3. ASSUME NEW r \in Requests,
               SolverSubscribes(r) \/ SolverAnswers(r) \/ SolverUnsubscribes(r)
        PROVE  [Service!Next]_([c \in Connections |-> Status(c)])
    <3>1. open' = open /\ replies' = replies
      BY <2>3 DEF SolverSubscribes, SolverAnswers, SolverUnsubscribes
    <3>2. \A q \in Requests : subscription'[q] # "none" <=> subscription[q] # "none"
      BY <2>3 DEF SolverSubscribes, SolverAnswers, SolverUnsubscribes, IInv, Typed
    <3>3. \A d \in Connections : Waits(d)' <=> Waits(d)
      BY <3>2 DEF Waits
    <3> QED BY <3>1, <3>3, StatusKept, NoneChanges
  <2>4. ASSUME NEW r \in Requests, NEW n \in 1 .. MaxAnswers, Answered(r, n)
        PROVE  [Service!Next]_([c \in Connections |-> Status(c)])
    <3> DEFINE c == On[r]
    <3>1. c \in Connections /\ open' = open /\ replies' = Line(c, "OK")
          /\ subscription' = subscription
      BY <2>0, <2>4 DEF Answered
    <3>2. \A d \in Connections : Waits(d)' <=> Waits(d)
      BY <3>1 DEF Waits
    <3>3. \A d \in Connections : d # c \/ c \notin open => replies'[d] = replies[d]
      BY <3>1, LineAppends DEF IInv
    <3>4. \A d \in Connections : d # c => Status(d)' = Status(d)
      BY <3>1, <3>2, <3>3, StatusKept
    <3>5. CASE c \notin open
      <4>1. Status(c)' = Status(c)
        BY <3>1, <3>2, <3>3, <3>5, StatusKept
      <4> QED BY <3>1, <3>4, <4>1, OneChanges
    <3>6. CASE c \in open
      <4>1. replies'[c] = Append(replies[c], "OK") /\ replies[c] \in Seq({"OK", "FAILED"})
        BY <3>1, <3>6, LineAppends DEF IInv, Typed
      <4>2. replies'[c] # <<>> /\ replies'[c][Len(replies'[c])] = "OK"
        BY <4>1, Appended
      <4>3. Status(c)' = "answered"
        BY <3>1, <3>6, <4>2 DEF Status
      <4>4. Waits(c)
        <5>1. mail[r] > 0
          BY <2>4, ServerAssumption DEF Answered, IInv, Typed
        <5> QED BY <5>1 DEF Waits, IInv, Asked
      <4>5. Status(c) \in {"answered", "failed", "waiting"}
        BY <3>1, <3>6, <4>4, StatusCases DEF IInv
      <4> QED BY <3>1, <3>4, <4>3, <4>5, OneChanges
    <3> QED BY <3>5, <3>6
  <2>5. ASSUME NEW r \in Requests, StopQuestion(r)
        PROVE  [Service!Next]_([c \in Connections |-> Status(c)])
    <3>1. CASE open' = {}
      BY <3>1, AllClosed
    <3>2. CASE open' = open
      <4>1. replies' = replies
            /\ subscription' \in {subscription, [subscription EXCEPT ![r] = "leaving"]}
        BY <2>5 DEF StopQuestion
      <4>2. calls[r] > 0
        BY <2>5 DEF StopQuestion, IInv, Typed
      <4>3. subscription[r] # "none"
        BY <4>2 DEF IInv, Asked
      <4>4. \A q \in Requests : subscription'[q] # "none" <=> subscription[q] # "none"
        BY <4>1, <4>3 DEF IInv, Typed
      <4>5. \A d \in Connections : Waits(d)' <=> Waits(d)
        BY <4>4 DEF Waits
      <4> QED BY <3>2, <4>1, <4>5, StatusKept, NoneChanges
    <3> QED BY <2>5, <3>1, <3>2 DEF StopQuestion
  <2>6. ASSUME NEW r \in Requests, Timeout(r)
        PROVE  [Service!Next]_([c \in Connections |-> Status(c)])
    <3> DEFINE c == On[r]
    <3>1. c \in Connections /\ open' = open /\ subscription' = subscription
          /\ replies' = IF received[c] THEN replies ELSE Line(c, "FAILED")
      BY <2>0, <2>6 DEF Timeout
    <3>2. \A d \in Connections : Waits(d)' <=> Waits(d)
      BY <3>1 DEF Waits
    <3>3. \A d \in Connections :
              d # c \/ c \notin open \/ received[c] => replies'[d] = replies[d]
      BY <3>1, LineAppends DEF IInv
    <3>4. \A d \in Connections : d # c => Status(d)' = Status(d)
      BY <3>1, <3>2, <3>3, StatusKept
    <3>5. CASE c \notin open \/ received[c]
      <4>1. Status(c)' = Status(c)
        BY <3>1, <3>2, <3>3, <3>5, StatusKept
      <4> QED BY <3>1, <3>4, <4>1, OneChanges
    <3>6. CASE c \in open /\ ~ received[c]
      <4>1. replies'[c] = Append(replies[c], "FAILED") /\ replies[c] \in Seq({"OK", "FAILED"})
        BY <3>1, <3>6, LineAppends DEF IInv, Typed
      <4>2. replies'[c] # <<>> /\ replies'[c][Len(replies'[c])] = "FAILED"
        BY <4>1, Appended
      <4>3. Status(c)' = "failed"
        BY <3>1, <3>6, <4>2 DEF Status
      <4>4. Waits(c)
        BY <2>6 DEF Timeout, Waits, IInv, Asked
      <4>5. CASE replies[c] = <<>>
        <5>1. Status(c) = "waiting"
          BY <3>1, <3>6, <4>4, <4>5, StatusCases DEF IInv
        <5> QED BY <3>1, <3>4, <4>3, <5>1, OneChanges
      <4>6. CASE replies[c] # <<>>
        <5>1. Len(replies[c]) \in 1 .. Len(replies[c])
          BY <4>1, <4>6
        <5>2. replies[c][Len(replies[c])] # "OK"
          BY <3>1, <3>6, <5>1 DEF IInv, Flagged
        <5>3. Status(c) = "failed"
          BY <3>1, <3>6, <4>6, <5>2, StatusCases DEF IInv
        <5> QED BY <3>1, <3>4, <4>3, <5>3, OneChanges
      <4> QED BY <4>5, <4>6
    <3> QED BY <3>5, <3>6
  <2>7. ASSUME NEW c \in Connections, Close(c)
        PROVE  [Service!Next]_([d \in Connections |-> Status(d)])
    <3>1. c \in open /\ open' = open \ {c} /\ replies' = replies
          /\ subscription' = subscription
      BY <2>7 DEF Close
    <3>2. \A d \in Connections : Waits(d)' <=> Waits(d)
      BY <3>1 DEF Waits
    <3>3. \A d \in Connections : d # c => Status(d)' = Status(d)
      BY <3>1, <3>2, StatusKept
    <3>4. Status(c)' = "closed"
      BY <3>1 DEF Status
    <3>5. Status(c) \in Service!Statuses \ {"closed"}
      BY <3>1, StatusCases DEF IInv
    <3> QED BY <3>3, <3>4, <3>5, OneChanges
  <2>8. CASE UNCHANGED vars
    <3>1. \A d \in Connections : Status(d)' = Status(d)
      BY <2>8 DEF vars, Status
    <3> QED BY <3>1, NoneChanges
  <2> QED
    BY <2>1, <2>2, <2>3, <2>4, <2>5, <2>6, <2>7, <2>8 DEF Next
<1> QED
  BY <1>1, <1>2, ServerInvariant, PTL DEF Spec, Service!Safety
=============================================================================
