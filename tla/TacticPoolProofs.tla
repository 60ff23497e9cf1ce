--------------------------- MODULE TacticPoolProofs ---------------------------
(***************************************************************************)
(* Proofs about TacticPool for any number of requests and threads.         *)
(***************************************************************************)
EXTENDS TacticPool, SequenceTheorems, FiniteSetTheorems, TLAPS

-----------------------------------------------------------------------------
(* The inductive invariant, as a predicate of the sessions and of what the *)
(* solver has been sent: in the middle of recycling these have changed and *)
(* the pool has not.                                                       *)

Life == {"none", "waiting", "active", "stopping", "stopped"}

\* The requests in the queue wait, each once.
Queued(sessions) ==
    /\ \A i \in DOMAIN waiting : sessions[waiting[i]] = "waiting"
    /\ \A i, j \in DOMAIN waiting : waiting[i] = waiting[j] => i = j

\* The pool holds each idle thread once.
Idle ==
    /\ \A i, j \in DOMAIN pool : pool[i] = pool[j] => i = j
    /\ \A i \in DOMAIN pool : delegate[pool[i]] = None

\* Thread u is attributed to the one active request made for it.
Serves(u, sessions) ==
    \A r \in Requests : delegate[u] = r <=> sessions[r] = "active" /\ threadOf[r] = u

\* What a stopped Tactic said last is that it leaves.
LeavesLast(sessions, requests) ==
    \A r \in Requests :
        sessions[r] \in {"stopping", "stopped"} =>
            \/ r \notin subscribed /\ requests[r] = <<>>
            \/ requests[r] # <<>> /\ requests[r][Len(requests[r])] = "leave"

\* A thread whose script has not connected has no part in the pool.
Unconnected ==
    \A t \in Threads :
        script[t] \in {"unborn", "starting"} =>
            delegate[t] = None /\ \A i \in DOMAIN pool : pool[i] # t

IInv ==
    /\ TypeOK /\ Queued(session) /\ Idle /\ IdleOrWaiting /\ Unconnected
    /\ \A u \in Threads : Serves(u, session)
    /\ LeavesLast(session, toSolver)

-----------------------------------------------------------------------------
(* Sequences, as EM::Queue uses them.                                      *)

\* What is appended to a sequence is its last element.
LEMMA Appended ==
    ASSUME NEW S, NEW s \in Seq(S), NEW e \in S
    PROVE  /\ Append(s, e) \in Seq(S) /\ Append(s, e) # <<>>
           /\ Len(Append(s, e)) = Len(s) + 1
           /\ Append(s, e)[Len(s) + 1] = e
           /\ DOMAIN Append(s, e) = 1..(Len(s) + 1) /\ DOMAIN s = 1..Len(s)
           /\ \A i \in DOMAIN s : Append(s, e)[i] = s[i]
  OBVIOUS

\* What is left of a queue keeps its order.
LEMMA Shifted ==
    ASSUME NEW S, NEW s \in Seq(S), s # <<>>
    PROVE  /\ Head(s) \in S /\ Head(s) = s[1] /\ 1 \in DOMAIN s
           /\ Tail(s) \in Seq(S) /\ Len(Tail(s)) = Len(s) - 1
           /\ DOMAIN Tail(s) = 1..(Len(s) - 1) /\ DOMAIN s = 1..Len(s)
           /\ \A i \in DOMAIN Tail(s) : i + 1 \in DOMAIN s /\ Tail(s)[i] = s[i + 1]
           /\ Len(s) \in Nat \ {0}
  OBVIOUS

\* A queue that had one element is empty then, another keeps its last one.
LEMMA LastStays ==
    ASSUME NEW S, NEW s \in Seq(S), s # <<>>
    PROVE  \/ Tail(s) = <<>> /\ Head(s) = s[Len(s)]
           \/ Tail(s) # <<>> /\ Tail(s)[Len(Tail(s))] = s[Len(s)]
  <1>1. Len(s) \in Nat \ {0} /\ Tail(s) \in Seq(S) /\ Len(Tail(s)) = Len(s) - 1
    BY Shifted
  <1>2. CASE Len(s) = 1
    <2>1. Len(Tail(s)) = 0
      BY <1>1, <1>2
    <2>2. Tail(s) = <<>>
      BY <1>1, <2>1, EmptySeq
    <2>. QED BY <1>2, <2>2, Shifted
  <1>3. CASE Len(s) # 1
    <2>1. Len(s) - 1 \in DOMAIN Tail(s)
      BY <1>1, <1>3, Shifted
    <2>2. Tail(s)[Len(s) - 1] = s[Len(s) - 1 + 1]
      BY <2>1, Shifted
    <2>3. Len(s) - 1 + 1 = Len(s)
      BY <1>1
    <2>4. Tail(s) # <<>>
      <3>1. Len(Tail(s)) # 0
        BY <1>1, <1>3
      <3>2. Len(<<>>) = 0
        OBVIOUS
      <3>. QED BY <3>1, <3>2
    <2>. QED BY <1>1, <2>2, <2>3, <2>4
  <1>. QED BY <1>2, <1>3

-----------------------------------------------------------------------------
(* Handing a thread to a request.                                          *)

\* Serve makes the request the thread's only one, and active.
LEMMA ServeKeeps ==
    ASSUME TypeOK,
           NEW t \in Threads, NEW r \in Requests,
           NEW sessions \in [Requests -> Life],
           NEW requests \in [Requests -> Seq({"need", "leave"})],
           sessions[r] \in {"none", "waiting"},
           \A u \in Threads \ {t} : Serves(u, sessions),
           \A q \in Requests : ~(sessions[q] = "active" /\ threadOf[q] = t),
           LeavesLast(sessions, requests),
           Serve(t, r, sessions, requests), UNCHANGED subscribed
    PROVE  /\ session' \in [Requests -> Life] /\ session'[r] = "active"
           /\ \A q \in Requests \ {r} : session'[q] = sessions[q]
           /\ threadOf' \in [Requests -> Threads \cup {None}]
           /\ delegate' \in [Threads -> Requests \cup {None}]
           /\ \A u \in Threads \ {t} : delegate'[u] = delegate[u]
           /\ toSolver' \in [Requests -> Seq({"need", "leave"})]
           /\ toScript' \in [Threads -> Seq(ToScript)]
           /\ \A u \in Threads : Serves(u, session)'
           /\ LeavesLast(session, toSolver)'
  <1>1. /\ session' = [sessions EXCEPT ![r] = "active"]
        /\ threadOf' = [threadOf EXCEPT ![r] = t]
        /\ delegate' = [delegate EXCEPT ![t] = r]
        /\ toSolver' = [requests EXCEPT ![r] = <<"need">>]
        /\ subscribed' = subscribed
    BY DEF Serve
  <1>2. /\ session' \in [Requests -> Life] /\ session'[r] = "active"
        /\ \A q \in Requests \ {r} : session'[q] = sessions[q]
    BY <1>1 DEF Life
  <1>3. /\ threadOf' \in [Requests -> Threads \cup {None}] /\ threadOf'[r] = t
        /\ \A q \in Requests \ {r} : threadOf'[q] = threadOf[q]
    BY <1>1 DEF TypeOK
  <1>4. /\ delegate' \in [Threads -> Requests \cup {None}] /\ delegate'[t] = r
        /\ \A u \in Threads \ {t} : delegate'[u] = delegate[u]
    BY <1>1 DEF TypeOK
  <1>5. <<"need">> \in Seq({"need", "leave"})
    OBVIOUS
  <1>6. /\ toSolver' \in [Requests -> Seq({"need", "leave"})]
        /\ \A q \in Requests \ {r} : toSolver'[q] = requests[q]
    BY <1>1, <1>5
  <1>7. toScript' \in [Threads -> Seq(ToScript)]
    <2>1. [kind |-> "start", of |-> r] \in ToScript
      BY DEF ToScript
    <2>2. Append(toScript[t], [kind |-> "start", of |-> r]) \in Seq(ToScript)
      BY <2>1, Appended DEF TypeOK
    <2>. QED BY <2>2 DEF Serve, Send, TypeOK
  <1>8. ASSUME NEW u \in Threads, NEW q \in Requests
        PROVE  delegate'[u] = q <=> session'[q] = "active" /\ threadOf'[q] = u
    <2>1. CASE u = t /\ q = r
      BY <1>2, <1>3, <1>4, <2>1
    <2>2. CASE u = t /\ q # r
      <3>1. delegate'[t] # q
        BY <1>4, <2>2
      <3>2. ~(session'[q] = "active" /\ threadOf'[q] = t)
        BY <1>2, <1>3, <2>2
      <3>. QED BY <2>2, <3>1, <3>2
    <2>3. CASE u # t /\ q = r
      BY <1>2, <1>3, <1>4, <2>3 DEF Serves
    <2>4. CASE u # t /\ q # r
      <3>1. delegate[u] = q <=> sessions[q] = "active" /\ threadOf[q] = u
        BY <2>4 DEF Serves
      <3>2. /\ delegate'[u] = delegate[u] /\ session'[q] = sessions[q]
            /\ threadOf'[q] = threadOf[q]
        BY <1>2, <1>3, <1>4, <2>4
      <3>. QED BY <3>1, <3>2
    <2>. QED BY <2>1, <2>2, <2>3, <2>4
  <1>9. ASSUME NEW q \in Requests, session'[q] \in {"stopping", "stopped"}
        PROVE  \/ q \notin subscribed' /\ toSolver'[q] = <<>>
               \/ toSolver'[q] # <<>> /\ toSolver'[q][Len(toSolver'[q])] = "leave"
    <2>1. q # r
      BY <1>2, <1>9
    <2>. QED BY <1>1, <1>2, <1>6, <1>9, <2>1 DEF LeavesLast
  <1>10. \A u \in Threads : Serves(u, session)'
    BY <1>8 DEF Serves
  <1>11. LeavesLast(session, toSolver)'
    BY <1>9 DEF LeavesLast
  <1>. QED BY <1>2, <1>3, <1>4, <1>6, <1>7, <1>10, <1>11

\* A thread that comes back, or connects, goes to the first request that waits
\* or into the pool.
LEMMA ReadyKeeps ==
    ASSUME TypeOK, Idle, IdleOrWaiting,
           NEW t \in Threads,
           NEW sessions \in [Requests -> Life],
           NEW requests \in [Requests -> Seq({"need", "leave"})],
           Queued(sessions),
           \A u \in Threads \ {t} : Serves(u, sessions),
           \A q \in Requests : ~(sessions[q] = "active" /\ threadOf[q] = t),
           LeavesLast(sessions, requests),
           \A i \in DOMAIN pool : pool[i] # t,
           ThreadReady(t, sessions, requests), UNCHANGED subscribed
    PROVE  /\ session' \in [Requests -> Life]
           /\ threadOf' \in [Requests -> Threads \cup {None}]
           /\ delegate' \in [Threads -> Requests \cup {None}]
           /\ \A u \in Threads \ {t} : delegate'[u] = delegate[u]
           /\ toSolver' \in [Requests -> Seq({"need", "leave"})]
           /\ toScript' \in [Threads -> Seq(ToScript)]
           /\ pool' \in Seq(Threads) /\ waiting' \in Seq(Requests)
           /\ \A i \in DOMAIN pool' : pool'[i] # t => \E j \in DOMAIN pool : pool[j] = pool'[i]
           /\ \A u \in Threads : Serves(u, session)'
           /\ LeavesLast(session, toSolver)'
           /\ Idle' /\ IdleOrWaiting' /\ Queued(session)'
  <1>1. CASE waiting = <<>>
    <2>1. /\ pool' = Append(pool, t) /\ waiting' = <<>>
          /\ delegate' = [delegate EXCEPT ![t] = None]
          /\ session' = sessions /\ toSolver' = requests
          /\ UNCHANGED <<threadOf, toScript>>
      BY <1>1 DEF ThreadReady
    <2>2. /\ delegate' \in [Threads -> Requests \cup {None}] /\ delegate'[t] = None
          /\ \A u \in Threads \ {t} : delegate'[u] = delegate[u]
      BY <2>1 DEF TypeOK
    <2>3. pool \in Seq(Threads)
      BY DEF TypeOK
    <2>4. /\ pool' \in Seq(Threads) /\ pool'[Len(pool) + 1] = t
          /\ DOMAIN pool' = 1..(Len(pool) + 1) /\ DOMAIN pool = 1..Len(pool)
          /\ \A i \in DOMAIN pool : pool'[i] = pool[i]
      BY <2>1, <2>3, Appended
    <2>5. \A i \in DOMAIN pool' : i \in DOMAIN pool \/ i = Len(pool) + 1
      BY <2>3, <2>4
    <2>6. ASSUME NEW u \in Threads, NEW q \in Requests
          PROVE  delegate'[u] = q <=> session'[q] = "active" /\ threadOf'[q] = u
      <3>1. CASE u = t
        BY <2>1, <2>2, <3>1, PoolAssumption
      <3>2. CASE u # t
        BY <2>1, <2>2, <3>2 DEF Serves
      <3>. QED BY <3>1, <3>2
    <2>7. Idle'
      <3>1. \A i \in DOMAIN pool' : delegate'[pool'[i]] = None
        BY <2>2, <2>3, <2>4, <2>5 DEF Idle
      <3>2. \A i, j \in DOMAIN pool' : pool'[i] = pool'[j] => i = j
        BY <2>4, <2>5 DEF Idle
      <3>. QED BY <3>1, <3>2 DEF Idle
    <2>8. IdleOrWaiting' /\ Queued(session)'
      BY <2>1 DEF IdleOrWaiting, Queued
    <2>9. \A u \in Threads : Serves(u, session)'
      BY <2>6 DEF Serves
    <2>10. LeavesLast(session, toSolver)'
      BY <2>1 DEF LeavesLast
    <2>11. \A i \in DOMAIN pool' : pool'[i] # t => \E j \in DOMAIN pool : pool[j] = pool'[i]
      BY <2>4, <2>5
    <2>12. /\ session' \in [Requests -> Life] /\ toSolver' \in [Requests -> Seq({"need", "leave"})]
           /\ threadOf' \in [Requests -> Threads \cup {None}]
           /\ toScript' \in [Threads -> Seq(ToScript)] /\ waiting' \in Seq(Requests)
      BY <2>1 DEF TypeOK
    <2>. QED BY <2>2, <2>4, <2>7, <2>8, <2>9, <2>10, <2>11, <2>12
  <1>2. CASE waiting # <<>>
    <2>. DEFINE r == Head(waiting)
    <2>1. /\ Serve(t, r, sessions, requests)
          /\ waiting' = Tail(waiting) /\ pool' = pool
      BY <1>2 DEF ThreadReady
    <2>2. waiting \in Seq(Requests) /\ pool = <<>>
      BY <1>2 DEF TypeOK, IdleOrWaiting
    <2>3. /\ r \in Requests /\ r = waiting[1] /\ 1 \in DOMAIN waiting
          /\ waiting' \in Seq(Requests)
          /\ \A i \in DOMAIN waiting' :
                 i + 1 \in DOMAIN waiting /\ waiting'[i] = waiting[i + 1] /\ i \in 1..Len(waiting)
      BY <1>2, <2>1, <2>2, Shifted
    <2>4. sessions[r] = "waiting"
      BY <2>3 DEF Queued
    <2>5. /\ session' \in [Requests -> Life] /\ session'[r] = "active"
          /\ \A q \in Requests \ {r} : session'[q] = sessions[q]
          /\ threadOf' \in [Requests -> Threads \cup {None}]
          /\ delegate' \in [Threads -> Requests \cup {None}]
          /\ \A u \in Threads \ {t} : delegate'[u] = delegate[u]
          /\ toSolver' \in [Requests -> Seq({"need", "leave"})]
          /\ toScript' \in [Threads -> Seq(ToScript)]
          /\ \A u \in Threads : Serves(u, session)'
          /\ LeavesLast(session, toSolver)'
      BY <2>1, <2>3, <2>4, ServeKeeps
    <2>6. Queued(session)'
      <3>1. ASSUME NEW i \in DOMAIN waiting' PROVE session'[waiting'[i]] = "waiting"
        <4>1. i + 1 \in DOMAIN waiting /\ waiting'[i] = waiting[i + 1] /\ i \in 1..Len(waiting)
          BY <2>3
        <4>2. waiting[i + 1] # r /\ waiting[i + 1] \in Requests
          BY <2>2, <2>3, <4>1 DEF Queued
        <4>3. sessions[waiting[i + 1]] = "waiting"
          BY <4>1 DEF Queued
        <4>. QED BY <2>5, <4>1, <4>2, <4>3
      <3>2. ASSUME NEW i \in DOMAIN waiting', NEW j \in DOMAIN waiting', waiting'[i] = waiting'[j]
            PROVE  i = j
        <4>1. i + 1 = j + 1
          BY <2>3, <3>2 DEF Queued
        <4>2. i \in Nat /\ j \in Nat
          BY <2>3
        <4>. QED BY <4>1, <4>2
      <3>. QED BY <3>1, <3>2 DEF Queued
    <2>7. Idle' /\ IdleOrWaiting'
      BY <2>1, <2>2 DEF Idle, IdleOrWaiting
    <2>8. pool' \in Seq(Threads) /\ DOMAIN pool' = {}
      BY <2>1, <2>2
    <2>. QED BY <2>3, <2>5, <2>6, <2>7, <2>8
  <1>. QED BY <1>1, <1>2

-----------------------------------------------------------------------------
(* Each action keeps the invariant.                                        *)

LEMMA SpawnOnIdleKeeps ==
    ASSUME IInv, NEW r \in Requests, SpawnOnIdle(r)
    PROVE  IInv'
  <1>. USE DEF IInv
  <1>. DEFINE t == Head(pool)
  <1>1. /\ session[r] = "none" /\ pool # <<>> /\ pool' = Tail(pool)
        /\ Serve(t, r, session, toSolver)
        /\ UNCHANGED <<waiting, script, subscribed, toTactic, fromScript, data, started, crashed>>
    BY DEF SpawnOnIdle, helper
  <1>2. /\ t \in Threads /\ t = pool[1] /\ 1 \in DOMAIN pool
        /\ pool' \in Seq(Threads)
        /\ \A i \in DOMAIN pool' :
               i + 1 \in DOMAIN pool /\ pool'[i] = pool[i + 1] /\ i \in Nat \ {0}
    BY <1>1, Shifted DEF TypeOK
  <1>3. delegate[t] = None
    BY <1>2 DEF Idle
  <1>4. \A q \in Requests : ~(session[q] = "active" /\ threadOf[q] = t)
    BY <1>2, <1>3, PoolAssumption DEF Serves
  <1>5. session \in [Requests -> Life] /\ toSolver \in [Requests -> Seq({"need", "leave"})]
    BY DEF TypeOK, Life
  <1>6. /\ session' \in [Requests -> Life] /\ session'[r] = "active"
        /\ \A q \in Requests \ {r} : session'[q] = session[q]
        /\ threadOf' \in [Requests -> Threads \cup {None}]
        /\ delegate' \in [Threads -> Requests \cup {None}]
        /\ \A u \in Threads \ {t} : delegate'[u] = delegate[u]
        /\ toSolver' \in [Requests -> Seq({"need", "leave"})]
        /\ toScript' \in [Threads -> Seq(ToScript)]
        /\ \A u \in Threads : Serves(u, session)'
        /\ LeavesLast(session, toSolver)'
    BY <1>1, <1>2, <1>4, <1>5, ServeKeeps
  <1>7. TypeOK'
    <2>1. session' \in [Requests -> {"none", "waiting", "active", "stopping", "stopped"}]
      BY <1>6 DEF Life
    <2>. QED BY <1>1, <1>2, <1>6, <2>1 DEF TypeOK
  <1>8. \A i \in DOMAIN pool' : pool'[i] # t /\ pool'[i] \in Threads
    BY <1>2 DEF Idle, TypeOK
  <1>9. Idle'
    <2>1. \A i \in DOMAIN pool' : delegate'[pool'[i]] = None
      <3>. SUFFICES ASSUME NEW i \in DOMAIN pool' PROVE delegate'[pool'[i]] = None
        OBVIOUS
      <3>1. delegate[pool'[i]] = None
        BY <1>2 DEF Idle
      <3>. QED BY <1>6, <1>8, <3>1
    <2>2. \A i, j \in DOMAIN pool' : pool'[i] = pool'[j] => i = j
      <3>. SUFFICES ASSUME NEW i \in DOMAIN pool', NEW j \in DOMAIN pool', pool'[i] = pool'[j]
                    PROVE  i = j
        OBVIOUS
      <3>1. i + 1 = j + 1 /\ i \in Nat /\ j \in Nat
        BY <1>2 DEF Idle
      <3>. QED BY <3>1
    <2>. QED BY <2>1, <2>2 DEF Idle
  <1>10. waiting = <<>>
    BY <1>1 DEF IdleOrWaiting
  <1>11. IdleOrWaiting' /\ Queued(session)'
    BY <1>1, <1>10 DEF IdleOrWaiting, Queued
  <1>12. Unconnected'
    <2>. SUFFICES ASSUME NEW u \in Threads, script[u] \in {"unborn", "starting"}
                  PROVE  delegate'[u] = None /\ \A i \in DOMAIN pool' : pool'[i] # u
      BY <1>1 DEF Unconnected
    <2>1. delegate[u] = None /\ \A i \in DOMAIN pool : pool[i] # u
      BY DEF Unconnected
    <2>2. u # t
      BY <1>2, <2>1
    <2>. QED BY <1>2, <1>6, <2>1, <2>2
  <1>. QED BY <1>6, <1>7, <1>9, <1>11, <1>12

LEMMA SpawnOnNewKeeps ==
    ASSUME IInv, NEW r \in Requests, NEW t \in Threads, SpawnOnNew(r, t)
    PROVE  IInv'
  <1>. USE DEF IInv
  <1>1. /\ session[r] = "none" /\ pool = <<>> /\ script[t] = "unborn"
        /\ script' = [script EXCEPT ![t] = "starting"]
        /\ session' = [session EXCEPT ![r] = "waiting"]
        /\ waiting' = Append(waiting, r)
        /\ UNCHANGED <<pool, delegate, threadOf, toSolver, subscribed, toTactic,
                       toScript, fromScript, data, started, crashed>>
    BY DEF SpawnOnNew, solver, helper
  <1>2. /\ script' \in [Threads -> {"unborn", "starting", "connected", "dead"}]
        /\ \A u \in Threads : script'[u] \in {"unborn", "starting"} =>
                                  script[u] \in {"unborn", "starting"}
    BY <1>1 DEF TypeOK
  <1>3. /\ session' \in [Requests -> Life] /\ session'[r] = "waiting"
        /\ \A q \in Requests \ {r} : session'[q] = session[q]
    BY <1>1 DEF TypeOK, Life
  <1>4. /\ waiting' \in Seq(Requests) /\ waiting'[Len(waiting) + 1] = r
        /\ DOMAIN waiting' = 1..(Len(waiting) + 1) /\ DOMAIN waiting = 1..Len(waiting)
        /\ Len(waiting) \in Nat
        /\ \A i \in DOMAIN waiting : waiting'[i] = waiting[i] /\ waiting[i] \in Requests
    BY <1>1, Appended DEF TypeOK
  <1>5. \A i \in DOMAIN waiting' : i \in DOMAIN waiting \/ i = Len(waiting) + 1
    BY <1>4
  <1>6. TypeOK'
    BY <1>1, <1>2, <1>3, <1>4 DEF TypeOK, Life
  <1>7. Queued(session)'
    <2>1. \A i \in DOMAIN waiting : waiting[i] # r
      BY <1>1 DEF Queued
    <2>2. \A i \in DOMAIN waiting' : session'[waiting'[i]] = "waiting"
      BY <1>3, <1>4, <1>5, <2>1 DEF Queued
    <2>3. \A i, j \in DOMAIN waiting' : waiting'[i] = waiting'[j] => i = j
      BY <1>4, <1>5, <2>1 DEF Queued
    <2>. QED BY <2>2, <2>3 DEF Queued
  <1>8. Idle' /\ IdleOrWaiting' /\ Unconnected'
    BY <1>1, <1>2 DEF Idle, IdleOrWaiting, Unconnected
  <1>9. \A u \in Threads : Serves(u, session)'
    BY <1>1, <1>3 DEF Serves
  <1>10. LeavesLast(session, toSolver)'
    BY <1>1, <1>3 DEF LeavesLast
  <1>. QED BY <1>6, <1>7, <1>8, <1>9, <1>10

LEMMA ConnectKeeps ==
    ASSUME IInv, NEW t \in Threads, Connect(t)
    PROVE  IInv'
  <1>. USE DEF IInv
  <1>1. /\ script[t] = "starting"
        /\ script' = [script EXCEPT ![t] = "connected"]
        /\ ThreadReady(t, session, toSolver)
        /\ UNCHANGED <<subscribed, toTactic, fromScript, data, started, crashed>>
    BY DEF Connect, helper
  <1>2. delegate[t] = None /\ \A i \in DOMAIN pool : pool[i] # t
    BY <1>1 DEF Unconnected
  <1>3. \A q \in Requests : ~(session[q] = "active" /\ threadOf[q] = t)
    BY <1>2, PoolAssumption DEF Serves
  <1>4. session \in [Requests -> Life] /\ toSolver \in [Requests -> Seq({"need", "leave"})]
    BY DEF TypeOK, Life
  <1>5. /\ session' \in [Requests -> Life]
        /\ threadOf' \in [Requests -> Threads \cup {None}]
        /\ delegate' \in [Threads -> Requests \cup {None}]
        /\ \A u \in Threads \ {t} : delegate'[u] = delegate[u]
        /\ toSolver' \in [Requests -> Seq({"need", "leave"})]
        /\ toScript' \in [Threads -> Seq(ToScript)]
        /\ pool' \in Seq(Threads) /\ waiting' \in Seq(Requests)
        /\ \A i \in DOMAIN pool' : pool'[i] # t => \E j \in DOMAIN pool : pool[j] = pool'[i]
        /\ \A u \in Threads : Serves(u, session)'
        /\ LeavesLast(session, toSolver)'
        /\ Idle' /\ IdleOrWaiting' /\ Queued(session)'
    BY <1>1, <1>2, <1>3, <1>4, ReadyKeeps
  <1>6. /\ script' \in [Threads -> {"unborn", "starting", "connected", "dead"}]
        /\ \A u \in Threads : script'[u] \in {"unborn", "starting"} =>
                                  u # t /\ script[u] \in {"unborn", "starting"}
    BY <1>1 DEF TypeOK
  <1>7. TypeOK'
    <2>1. session' \in [Requests -> {"none", "waiting", "active", "stopping", "stopped"}]
      BY <1>5 DEF Life
    <2>. QED BY <1>1, <1>5, <1>6, <2>1 DEF TypeOK
  <1>8. Unconnected'
    <2>. SUFFICES ASSUME NEW u \in Threads, u # t, script[u] \in {"unborn", "starting"}
                  PROVE  delegate'[u] = None /\ \A i \in DOMAIN pool' : pool'[i] # u
      BY <1>6 DEF Unconnected
    <2>1. delegate[u] = None /\ \A i \in DOMAIN pool : pool[i] # u
      BY DEF Unconnected
    <2>. QED BY <1>5, <2>1
  <1>. QED BY <1>5, <1>7, <1>8

\* The request that recycles is stopping from now on, and its last message is
\* that it leaves, before its thread is given away.
LEMMA HearRecycleKeeps ==
    ASSUME IInv, NEW t \in Threads, HearRecycle(t)
    PROVE  IInv'
  <1>. USE DEF IInv
  <1>. DEFINE r == delegate[t]
              sessions == [session EXCEPT ![r] = "stopping"]
              requests == [toSolver EXCEPT ![r] = Append(@, "leave")]
  <1>1. /\ r # None
        /\ ThreadReady(t, sessions, requests)
        /\ UNCHANGED <<script, subscribed, toTactic, data, started, crashed>>
        /\ fromScript' = [fromScript EXCEPT ![t] = Tail(@)]
        /\ fromScript[t] # <<>>
    BY DEF HearRecycle, Listen, helper
  <1>2. r \in Requests /\ session[r] = "active" /\ threadOf[r] = t
    BY <1>1 DEF TypeOK, Serves
  <1>3. \A i \in DOMAIN pool : pool[i] # t
    BY <1>1 DEF Idle
  <1>4. /\ sessions \in [Requests -> Life] /\ sessions[r] = "stopping"
        /\ \A q \in Requests \ {r} : sessions[q] = session[q]
    BY <1>2 DEF TypeOK, Life
  <1>5. /\ Append(toSolver[r], "leave") \in Seq({"need", "leave"})
        /\ Append(toSolver[r], "leave") # <<>>
        /\ Append(toSolver[r], "leave")[Len(Append(toSolver[r], "leave"))] = "leave"
    <2>1. toSolver[r] \in Seq({"need", "leave"}) /\ "leave" \in {"need", "leave"}
      BY <1>2 DEF TypeOK
    <2>. QED BY <2>1, Appended
  <1>6. /\ requests \in [Requests -> Seq({"need", "leave"})]
        /\ requests[r] = Append(toSolver[r], "leave")
        /\ \A q \in Requests \ {r} : requests[q] = toSolver[q]
    BY <1>2, <1>5 DEF TypeOK
  <1>. HIDE DEF sessions, requests
  <1>7. Queued(sessions)
    <2>1. \A i \in DOMAIN waiting : waiting[i] \in Requests
      BY DEF TypeOK
    <2>. QED BY <1>2, <1>4, <2>1 DEF Queued
  <1>8. \A q \in Requests : ~(sessions[q] = "active" /\ threadOf[q] = t)
    <2>1. \A q \in Requests : session[q] = "active" /\ threadOf[q] = t => q = r
      BY DEF Serves
    <2>. QED BY <1>2, <1>4, <2>1
  <1>9. \A u \in Threads \ {t} : Serves(u, sessions)
    <2>. SUFFICES ASSUME NEW u \in Threads \ {t}, NEW q \in Requests
                  PROVE  delegate[u] = q <=> sessions[q] = "active" /\ threadOf[q] = u
      BY DEF Serves
    <2>1. delegate[u] = q <=> session[q] = "active" /\ threadOf[q] = u
      BY DEF Serves
    <2>2. CASE q = r
      BY <1>2, <1>4, <2>1, <2>2
    <2>3. CASE q # r
      BY <1>4, <2>1, <2>3
    <2>. QED BY <2>2, <2>3
  <1>10. LeavesLast(sessions, requests)
    <2>. SUFFICES ASSUME NEW q \in Requests, sessions[q] \in {"stopping", "stopped"}
                  PROVE  \/ q \notin subscribed /\ requests[q] = <<>>
                         \/ requests[q] # <<>> /\ requests[q][Len(requests[q])] = "leave"
      BY DEF LeavesLast
    <2>1. CASE q = r
      BY <1>5, <1>6, <2>1
    <2>2. CASE q # r
      BY <1>4, <1>6, <2>2 DEF LeavesLast
    <2>. QED BY <2>1, <2>2
  <1>11. /\ session' \in [Requests -> Life]
         /\ threadOf' \in [Requests -> Threads \cup {None}]
         /\ delegate' \in [Threads -> Requests \cup {None}]
         /\ \A u \in Threads \ {t} : delegate'[u] = delegate[u]
         /\ toSolver' \in [Requests -> Seq({"need", "leave"})]
         /\ toScript' \in [Threads -> Seq(ToScript)]
         /\ pool' \in Seq(Threads) /\ waiting' \in Seq(Requests)
         /\ \A i \in DOMAIN pool' : pool'[i] # t => \E j \in DOMAIN pool : pool[j] = pool'[i]
         /\ \A u \in Threads : Serves(u, session)'
         /\ LeavesLast(session, toSolver)'
         /\ Idle' /\ IdleOrWaiting' /\ Queued(session)'
    BY <1>1, <1>3, <1>4, <1>6, <1>7, <1>8, <1>9, <1>10, ReadyKeeps
  <1>12. TypeOK'
    <2>1. session' \in [Requests -> {"none", "waiting", "active", "stopping", "stopped"}]
      BY <1>11 DEF Life
    <2>2. fromScript' \in [Threads -> Seq(FromScript)]
      <3>1. Tail(fromScript[t]) \in Seq(FromScript)
        BY <1>1, Shifted DEF TypeOK
      <3>. QED BY <1>1, <3>1 DEF TypeOK
    <2>. QED BY <1>1, <1>11, <2>1, <2>2 DEF TypeOK
  <1>13. Unconnected'
    <2>. SUFFICES ASSUME NEW u \in Threads, script[u] \in {"unborn", "starting"}
                  PROVE  delegate'[u] = None /\ \A i \in DOMAIN pool' : pool'[i] # u
      BY <1>1 DEF Unconnected
    <2>1. delegate[u] = None /\ \A i \in DOMAIN pool : pool[i] # u
      BY DEF Unconnected
    <2>2. u # t
      BY <1>1, <2>1
    <2>. QED BY <1>11, <2>1, <2>2
  <1>. QED BY <1>11, <1>12, <1>13

\* The solver reads what a Tactic says in the order it was said.
LEMMA SolverReadsKeeps ==
    ASSUME IInv, NEW r \in Requests, SolverReads(r)
    PROVE  IInv'
  <1>. USE DEF IInv
  <1>1. /\ toSolver[r] # <<>>
        /\ toSolver' = [toSolver EXCEPT ![r] = Tail(@)]
        /\ subscribed' = IF Head(toSolver[r]) = "need" THEN subscribed \cup {r}
                                                       ELSE subscribed \ {r}
        /\ UNCHANGED <<pool, waiting, script, delegate, session, threadOf, toTactic,
                       toScript, fromScript, data, started, crashed>>
    BY DEF SolverReads, queue, threads, tactics, helper
  <1>2. toSolver[r] \in Seq({"need", "leave"})
    BY DEF TypeOK
  <1>3. /\ toSolver' \in [Requests -> Seq({"need", "leave"})]
        /\ toSolver'[r] = Tail(toSolver[r])
        /\ \A q \in Requests \ {r} : toSolver'[q] = toSolver[q]
    <2>1. Tail(toSolver[r]) \in Seq({"need", "leave"})
      BY <1>1, <1>2, Shifted
    <2>. QED BY <1>1, <2>1 DEF TypeOK
  <1>4. TypeOK'
    BY <1>1, <1>3 DEF TypeOK
  <1>5. Queued(session)' /\ Idle' /\ IdleOrWaiting' /\ Unconnected'
    BY <1>1 DEF Queued, Idle, IdleOrWaiting, Unconnected
  <1>6. \A u \in Threads : Serves(u, session)'
    BY <1>1 DEF Serves
  <1>7. LeavesLast(session, toSolver)'
    <2>. SUFFICES ASSUME NEW q \in Requests, session[q] \in {"stopping", "stopped"}
                  PROVE  \/ q \notin subscribed' /\ toSolver'[q] = <<>>
                         \/ /\ toSolver'[q] # <<>>
                            /\ toSolver'[q][Len(toSolver'[q])] = "leave"
      BY <1>1 DEF LeavesLast
    <2>1. CASE q # r
      BY <1>1, <1>3, <2>1 DEF LeavesLast
    <2>2. CASE q = r
      <3>1. toSolver[r][Len(toSolver[r])] = "leave"
        BY <1>1, <2>2 DEF LeavesLast
      <3>. QED BY <1>1, <1>2, <1>3, <2>2, <3>1, LastStays
    <2>. QED BY <2>1, <2>2
  <1>. QED BY <1>4, <1>5, <1>6, <1>7

\* A script asks for more only on behalf of the active request it serves.
LEMMA HearNeedKeeps ==
    ASSUME IInv, NEW t \in Threads, HearNeed(t)
    PROVE  IInv'
  <1>. USE DEF IInv
  <1>. DEFINE r == delegate[t]
  <1>1. /\ r # None /\ fromScript[t] # <<>>
        /\ fromScript' = [fromScript EXCEPT ![t] = Tail(@)]
        /\ toSolver' = [toSolver EXCEPT ![r] = Append(@, "need")]
        /\ UNCHANGED <<pool, waiting, script, delegate, session, threadOf, subscribed,
                       toTactic, toScript, data, started, crashed>>
    BY DEF HearNeed, Listen, queue, threads, tactics, helper
  <1>2. r \in Requests /\ session[r] = "active"
    BY <1>1 DEF TypeOK, Serves
  <1>3. /\ toSolver' \in [Requests -> Seq({"need", "leave"})]
        /\ \A q \in Requests \ {r} : toSolver'[q] = toSolver[q]
    <2>1. Append(toSolver[r], "need") \in Seq({"need", "leave"})
      BY <1>2, Appended DEF TypeOK
    <2>. QED BY <1>1, <1>2, <2>1 DEF TypeOK
  <1>4. TypeOK'
    <2>1. fromScript' \in [Threads -> Seq(FromScript)]
      <3>1. Tail(fromScript[t]) \in Seq(FromScript)
        BY <1>1, Shifted DEF TypeOK
      <3>. QED BY <1>1, <3>1 DEF TypeOK
    <2>. QED BY <1>1, <1>3, <2>1 DEF TypeOK
  <1>5. Queued(session)' /\ Idle' /\ IdleOrWaiting' /\ Unconnected'
    BY <1>1 DEF Queued, Idle, IdleOrWaiting, Unconnected
  <1>6. \A u \in Threads : Serves(u, session)'
    BY <1>1 DEF Serves
  <1>7. LeavesLast(session, toSolver)'
    BY <1>1, <1>2, <1>3 DEF LeavesLast
  <1>. QED BY <1>4, <1>5, <1>6, <1>7

\* The timer only turns a stopping Tactic into a stopped one.
LEMMA StopTimerKeeps ==
    ASSUME IInv, NEW r \in Requests, StopTimer(r)
    PROVE  IInv'
  <1>. USE DEF IInv
  <1>1. /\ session[r] = "stopping" /\ session' = [session EXCEPT ![r] = "stopped"]
        /\ UNCHANGED <<pool, waiting, script, delegate, threadOf, toSolver, subscribed,
                       toTactic, toScript, fromScript, data, started, crashed>>
    BY DEF StopTimer, queue, threads, solver, helper
  <1>2. /\ session' \in [Requests -> Life] /\ session'[r] = "stopped"
        /\ \A q \in Requests \ {r} : session'[q] = session[q]
    BY <1>1 DEF TypeOK, Life
  <1>3. TypeOK'
    BY <1>1, <1>2 DEF TypeOK, Life
  <1>4. Queued(session)'
    <2>1. \A i \in DOMAIN waiting : waiting[i] \in Requests
      BY DEF TypeOK
    <2>. QED BY <1>1, <1>2, <2>1 DEF Queued
  <1>5. Idle' /\ IdleOrWaiting' /\ Unconnected'
    BY <1>1 DEF Idle, IdleOrWaiting, Unconnected
  <1>6. \A u \in Threads : Serves(u, session)'
    BY <1>1, <1>2 DEF Serves
  <1>7. LeavesLast(session, toSolver)'
    BY <1>1, <1>2 DEF LeavesLast
  <1>. QED BY <1>3, <1>4, <1>5, <1>6, <1>7

\* Messages under way say nothing of who serves whom.
LEMMA MessagesKeep ==
    ASSUME IInv, TypeOK',
           UNCHANGED <<pool, waiting, script, delegate, session, threadOf,
                       toSolver, subscribed>>
    PROVE  IInv'
  <1>1. Queued(session)' /\ Idle' /\ IdleOrWaiting' /\ Unconnected'
    BY DEF IInv, Queued, Idle, IdleOrWaiting, Unconnected
  <1>2. (\A u \in Threads : Serves(u, session))' /\ LeavesLast(session, toSolver)'
    BY DEF IInv, Serves, LeavesLast
  <1>. QED BY <1>1, <1>2 DEF IInv

\* A message that is heard and changes nothing, or ends the process.
LEMMA ListenKeeps ==
    ASSUME IInv, NEW t \in Threads, HearLog(t) \/ \E m \in FromScript : NoDelegate(t, m)
    PROVE  IInv'
  <1>1. /\ fromScript[t] # <<>> /\ fromScript' = [fromScript EXCEPT ![t] = Tail(@)]
        /\ crashed' \in BOOLEAN
        /\ UNCHANGED <<pool, waiting, script, delegate, session, threadOf, toSolver,
                       subscribed, toTactic, toScript, data, started>>
    BY DEF HearLog, NoDelegate, Listen, queue, threads, tactics, solver, helper, IInv, TypeOK
  <1>2. fromScript' \in [Threads -> Seq(FromScript)]
    <2>1. Tail(fromScript[t]) \in Seq(FromScript)
      BY <1>1, Shifted DEF IInv, TypeOK
    <2>. QED BY <1>1, <2>1 DEF IInv, TypeOK
  <1>3. TypeOK'
    BY <1>1, <1>2 DEF IInv, TypeOK
  <1>. QED BY <1>1, <1>3, MessagesKeep

LEMMA SolverInformsKeeps ==
    ASSUME IInv, NEW r \in Requests, SolverInforms(r)
    PROVE  IInv'
  <1>1. /\ toTactic' = toTactic \cup {r}
        /\ UNCHANGED <<pool, waiting, script, delegate, session, threadOf, toSolver,
                       subscribed, toScript, fromScript, data, started, crashed>>
    BY DEF SolverInforms, queue, threads, tactics, helper
  <1>2. TypeOK'
    BY <1>1 DEF IInv, TypeOK
  <1>. QED BY <1>1, <1>2, MessagesKeep

\* Whatever thread a Tactic writes to, it only adds to what that has to read.
LEMMA TacticHearsKeeps ==
    ASSUME IInv, NEW r \in Requests, TacticHears(r)
    PROVE  IInv'
  <1>. DEFINE m == [kind |-> "truth", of |-> r]
              t == threadOf[r]
  <1>1. /\ toTactic' = toTactic \ {r}
        /\ \/ toScript' = toScript
           \/ toScript' = [toScript EXCEPT ![t] = Append(@, m)]
        /\ UNCHANGED <<pool, waiting, script, delegate, session, threadOf, toSolver,
                       subscribed, fromScript, data, started, crashed>>
    BY DEF TacticHears, Send, queue, threads, tactics, helper
  <1>2. m \in ToScript
    BY DEF ToScript
  <1>3. toScript' \in [Threads -> Seq(ToScript)]
    <2>1. CASE toScript' = toScript
      BY <2>1 DEF IInv, TypeOK
    <2>2. CASE toScript' = [toScript EXCEPT ![t] = Append(@, m)]
      <3>1. t \in Threads => Append(toScript[t], m) \in Seq(ToScript)
        BY <1>2, Appended DEF IInv, TypeOK
      <3>. QED BY <2>2, <3>1 DEF IInv, TypeOK
    <2>. QED BY <1>1, <2>1, <2>2
  <1>4. TypeOK'
    BY <1>1, <1>3 DEF IInv, TypeOK
  <1>. QED BY <1>1, <1>4, MessagesKeep

LEMMA ScriptReadsKeeps ==
    ASSUME IInv, NEW t \in Threads, NEW recycles \in BOOLEAN, NEW needs \in BOOLEAN,
           ScriptReads(t, recycles, needs)
    PROVE  IInv'
  <1>. DEFINE m == Head(toScript[t])
              ready == started \cup {u \in {t} : m.kind = "start"}
              said == <<"log">> \o (IF needs THEN <<"need">> ELSE <<>>)
                                \o (IF recycles THEN <<"recycle">> ELSE <<>>)
  <1>1. /\ toScript[t] # <<>>
        /\ toScript' = [toScript EXCEPT ![t] = Tail(@)]
        /\ data' = [data EXCEPT ![t] = IF recycles THEN {} ELSE @ \cup {m.of}]
        /\ started' = IF recycles THEN ready \ {t} ELSE ready
        /\ UNCHANGED <<pool, waiting, script, delegate, session, threadOf, toSolver,
                       subscribed, toTactic, crashed>>
    BY DEF ScriptReads, queue, threads, tactics, solver
  <1>2. fromScript' = [fromScript EXCEPT ![t] =
              @ \o <<"log">> \o (IF needs THEN <<"need">> ELSE <<>>)
                             \o (IF recycles THEN <<"recycle">> ELSE <<>>)]
    BY DEF ScriptReads
  <1>3. m \in ToScript /\ Tail(toScript[t]) \in Seq(ToScript)
    BY <1>1, Shifted DEF IInv, TypeOK
  <1>4. /\ toScript' \in [Threads -> Seq(ToScript)]
        /\ data' \in [Threads -> SUBSET Requests]
        /\ started' \subseteq Threads
    <2>1. m.of \in Requests
      BY <1>3 DEF ToScript
    <2>2. toScript' \in [Threads -> Seq(ToScript)]
      BY <1>1, <1>3 DEF IInv, TypeOK
    <2>3. data' \in [Threads -> SUBSET Requests]
      BY <1>1, <2>1 DEF IInv, TypeOK
    <2>4. started' \subseteq Threads
      BY <1>1 DEF IInv, TypeOK
    <2>. QED BY <2>2, <2>3, <2>4
  <1>5. fromScript' \in [Threads -> Seq(FromScript)]
    <2>1. /\ <<"log">> \in Seq(FromScript) /\ <<"need">> \in Seq(FromScript)
          /\ <<"recycle">> \in Seq(FromScript) /\ <<>> \in Seq(FromScript)
      BY DEF FromScript
    <2>2. (IF needs THEN <<"need">> ELSE <<>>) \in Seq(FromScript)
      BY <2>1
    <2>3. (IF recycles THEN <<"recycle">> ELSE <<>>) \in Seq(FromScript)
      BY <2>1
    <2>4. fromScript[t] \o <<"log">> \in Seq(FromScript)
      BY <2>1 DEF IInv, TypeOK
    <2>5. fromScript[t] \o <<"log">> \o (IF needs THEN <<"need">> ELSE <<>>)
            \in Seq(FromScript)
      BY <2>2, <2>4
    <2>6. fromScript[t] \o <<"log">> \o (IF needs THEN <<"need">> ELSE <<>>)
            \o (IF recycles THEN <<"recycle">> ELSE <<>>) \in Seq(FromScript)
      BY <2>3, <2>5
    <2>. QED BY <1>2, <2>6 DEF IInv, TypeOK
  <1>6. TypeOK'
    BY <1>1, <1>4, <1>5 DEF IInv, TypeOK
  <1>. QED BY <1>1, <1>6, MessagesKeep

\* A script that dies was in the pool already, or never comes there.
LEMMA ScriptDiesKeeps ==
    ASSUME IInv, NEW t \in Threads, ScriptDies(t)
    PROVE  IInv'
  <1>. USE DEF IInv
  <1>1. /\ script' = [script EXCEPT ![t] = "dead"]
        /\ toScript' = [toScript EXCEPT ![t] = <<>>]
        /\ UNCHANGED <<pool, waiting, delegate, session, threadOf, toSolver,
                       subscribed, toTactic, fromScript, data, started, crashed>>
    BY DEF ScriptDies, queue, tactics, solver, helper
  <1>2. /\ script' \in [Threads -> {"unborn", "starting", "connected", "dead"}]
        /\ \A u \in Threads : script'[u] \in {"unborn", "starting"} =>
                                  script[u] \in {"unborn", "starting"}
    BY <1>1 DEF TypeOK
  <1>3. toScript' \in [Threads -> Seq(ToScript)]
    BY <1>1 DEF TypeOK
  <1>4. TypeOK'
    BY <1>1, <1>2, <1>3 DEF TypeOK
  <1>5. Queued(session)' /\ Idle' /\ IdleOrWaiting' /\ Unconnected'
    BY <1>1, <1>2 DEF Queued, Idle, IdleOrWaiting, Unconnected
  <1>6. (\A u \in Threads : Serves(u, session))' /\ LeavesLast(session, toSolver)'
    BY <1>1 DEF Serves, LeavesLast
  <1>. QED BY <1>4, <1>5, <1>6

-----------------------------------------------------------------------------
(* The theorems.                                                           *)

LEMMA Initially == Init => IInv
  <1>. SUFFICES ASSUME Init PROVE IInv
    OBVIOUS
  <1>1. /\ pool = <<>> /\ waiting = <<>> /\ subscribed = {} /\ toTactic = {}
        /\ script = [t \in Threads |-> "unborn"]
        /\ delegate = [t \in Threads |-> None]
        /\ session = [r \in Requests |-> "none"]
        /\ threadOf = [r \in Requests |-> None]
        /\ toSolver = [r \in Requests |-> <<>>]
        /\ toScript = [t \in Threads |-> <<>>]
        /\ fromScript = [t \in Threads |-> <<>>]
        /\ data = [t \in Threads |-> {}] /\ started = {} /\ crashed = FALSE
    BY DEF Init
  <1>2. TypeOK
    <2>1. pool \in Seq(Threads) /\ waiting \in Seq(Requests)
      BY <1>1
    <2>2. /\ <<>> \in Seq({"need", "leave"})
          /\ <<>> \in Seq(ToScript)
          /\ <<>> \in Seq(FromScript)
      OBVIOUS
    <2>3. /\ toSolver \in [Requests -> Seq({"need", "leave"})]
          /\ toScript \in [Threads -> Seq(ToScript)]
          /\ fromScript \in [Threads -> Seq(FromScript)]
      BY <1>1, <2>2
    <2>4. /\ script \in [Threads -> {"unborn", "starting", "connected", "dead"}]
          /\ session \in [Requests -> {"none", "waiting", "active", "stopping", "stopped"}]
      BY <1>1
    <2>5. /\ delegate \in [Threads -> Requests \cup {None}]
          /\ threadOf \in [Requests -> Threads \cup {None}]
          /\ data \in [Threads -> SUBSET Requests]
      BY <1>1
    <2>. QED BY <1>1, <2>1, <2>3, <2>4, <2>5 DEF TypeOK
  <1>3. Queued(session) /\ Idle /\ IdleOrWaiting /\ Unconnected
    BY <1>1 DEF Queued, Idle, IdleOrWaiting, Unconnected
  <1>4. \A u \in Threads : Serves(u, session)
    BY <1>1, PoolAssumption DEF Serves
  <1>5. LeavesLast(session, toSolver)
    BY <1>1 DEF LeavesLast
  <1>. QED BY <1>2, <1>3, <1>4, <1>5 DEF IInv

LEMMA Step == IInv /\ [Next]_vars => IInv'
  <1>. SUFFICES ASSUME IInv, [Next]_vars PROVE IInv'
    OBVIOUS
  <1>1. ASSUME NEW r \in Requests, SpawnOnIdle(r) \/ StopTimer(r) PROVE IInv'
    BY <1>1, SpawnOnIdleKeeps, StopTimerKeeps
  <1>2. ASSUME NEW r \in Requests, NEW t \in Threads, SpawnOnNew(r, t) PROVE IInv'
    BY <1>2, SpawnOnNewKeeps
  <1>3. ASSUME NEW r \in Requests, SolverReads(r) \/ SolverInforms(r) \/ TacticHears(r)
        PROVE  IInv'
    BY <1>3, SolverReadsKeeps, SolverInformsKeeps, TacticHearsKeeps
  <1>4. ASSUME NEW t \in Threads, Connect(t) \/ HearNeed(t) \/ HearRecycle(t) PROVE IInv'
    BY <1>4, ConnectKeeps, HearNeedKeeps, HearRecycleKeeps
  <1>5. ASSUME NEW t \in Threads, HearLog(t) \/ \E m \in FromScript : NoDelegate(t, m)
        PROVE  IInv'
    BY <1>5, ListenKeeps
  <1>6. ASSUME NEW t \in Threads,
               ScriptDies(t) \/ \E recycles, needs \in BOOLEAN : ScriptReads(t, recycles, needs)
        PROVE  IInv'
    BY <1>6, ScriptDiesKeeps, ScriptReadsKeeps
  <1>7. CASE UNCHANGED vars
    <2>1. UNCHANGED <<pool, waiting, script, delegate, session, threadOf, toSolver,
                      subscribed, toTactic, toScript, fromScript, data, started, crashed>>
      BY <1>7 DEF vars, queue, threads, tactics, solver, helper
    <2>2. TypeOK'
      BY <2>1 DEF IInv, TypeOK
    <2>. QED BY <2>1, <2>2, MessagesKeep
  <1>. QED BY <1>1, <1>2, <1>3, <1>4, <1>5, <1>6, <1>7 DEF Next

LEMMA Invariant == Spec => []IInv
  BY Initially, Step, PTL DEF Spec

-----------------------------------------------------------------------------
(* The scripts on their way, counted against the requests that wait.       *)

Coming == {t \in Threads : script[t] = "starting"}
Dead == {t \in Threads : script[t] = "dead"}

LEMMA CountsFinite ==
    ASSUME NEW S \in SUBSET Threads
    PROVE  IsFiniteSet(S) /\ Cardinality(S) \in Nat
  BY PoolAssumption, FS_Subset, FS_CardinalityType

\* No step but these lets anyone wait or takes a script off its way.
LEMMA WaitersStay ==
    ASSUME IInv, [Next]_vars,
           \A r \in Requests, t \in Threads : ~SpawnOnNew(r, t),
           \A t \in Threads : ~Connect(t) /\ ~HearRecycle(t) /\ ~ScriptDies(t)
    PROVE  UNCHANGED <<waiting, script>>
  <1>1. ASSUME NEW r \in Requests, SpawnOnIdle(r) \/ StopTimer(r)
        PROVE  UNCHANGED <<waiting, script>>
    BY <1>1 DEF SpawnOnIdle, StopTimer, queue, threads
  <1>2. ASSUME NEW r \in Requests, SolverReads(r) \/ SolverInforms(r) \/ TacticHears(r)
        PROVE  UNCHANGED <<waiting, script>>
    BY <1>2 DEF SolverReads, SolverInforms, TacticHears, queue, threads
  <1>3. ASSUME NEW t \in Threads,
               \/ HearNeed(t) \/ HearLog(t) \/ \E m \in FromScript : NoDelegate(t, m)
               \/ \E recycles, needs \in BOOLEAN : ScriptReads(t, recycles, needs)
        PROVE  UNCHANGED <<waiting, script>>
    BY <1>3 DEF HearNeed, HearLog, NoDelegate, ScriptReads, queue, threads
  <1>4. CASE UNCHANGED vars
    BY <1>4 DEF vars, queue, threads
  <1>. QED BY <1>1, <1>2, <1>3, <1>4 DEF Next

\* A thread that is ready takes at most one request off the queue.
LEMMA ReadyShortens ==
    ASSUME TypeOK, NEW t \in Threads, NEW sessions, NEW requests,
           ThreadReady(t, sessions, requests)
    PROVE  \/ waiting = <<>> /\ waiting' = <<>> /\ Len(waiting') = 0
           \/ Len(waiting) \in Nat \ {0} /\ Len(waiting') = Len(waiting) - 1
  <1>1. CASE waiting = <<>>
    BY <1>1 DEF ThreadReady
  <1>2. CASE waiting # <<>>
    BY <1>2, Shifted DEF ThreadReady, TypeOK
  <1>. QED BY <1>1, <1>2

LEMMA WaiterStep == IInv /\ WaiterHasThread /\ [Next]_vars => WaiterHasThread'
  <1>. SUFFICES ASSUME IInv, WaiterHasThread, [Next]_vars PROVE WaiterHasThread'
    OBVIOUS
  <1>1. /\ Coming \in SUBSET Threads /\ Coming' \in SUBSET Threads
        /\ Dead \in SUBSET Threads /\ Dead' \in SUBSET Threads
    BY DEF Coming, Dead
  <1>2. /\ IsFiniteSet(Coming) /\ Cardinality(Coming) \in Nat
        /\ IsFiniteSet(Dead) /\ Cardinality(Dead) \in Nat
        /\ IsFiniteSet(Coming') /\ Cardinality(Coming') \in Nat
        /\ IsFiniteSet(Dead') /\ Cardinality(Dead') \in Nat
    BY <1>1, CountsFinite
  <1>3. Len(waiting) \in Nat /\ Len(waiting) <= Cardinality(Coming) + Cardinality(Dead)
    BY DEF WaiterHasThread, Coming, Dead, IInv, TypeOK
  <1>4. TypeOK
    BY DEF IInv
  <1>5. SUFFICES Len(waiting') <= Cardinality(Coming') + Cardinality(Dead')
    BY DEF WaiterHasThread, Coming, Dead
  <1>6. ASSUME NEW r \in Requests, NEW t \in Threads, SpawnOnNew(r, t)
        PROVE  Len(waiting') <= Cardinality(Coming') + Cardinality(Dead')
    <2>1. Coming' = Coming \cup {t} /\ t \notin Coming /\ Dead' = Dead
      BY <1>4, <1>6 DEF SpawnOnNew, Coming, Dead, TypeOK
    <2>2. Len(waiting') = Len(waiting) + 1
      BY <1>4, <1>6, Appended DEF SpawnOnNew, TypeOK
    <2>3. Cardinality(Coming') = Cardinality(Coming) + 1
      BY <1>2, <2>1, FS_AddElement
    <2>. QED BY <1>2, <1>3, <2>1, <2>2, <2>3
  <1>7. ASSUME NEW t \in Threads, Connect(t)
        PROVE  Len(waiting') <= Cardinality(Coming') + Cardinality(Dead')
    <2>1. Coming' = Coming \ {t} /\ t \in Coming /\ Dead' = Dead
      BY <1>4, <1>7 DEF Connect, Coming, Dead, TypeOK
    <2>2. Cardinality(Coming') = Cardinality(Coming) - 1
      BY <1>2, <2>1, FS_RemoveElement
    <2>3. \/ Len(waiting') = 0
          \/ Len(waiting') = Len(waiting) - 1
      BY <1>4, <1>7, ReadyShortens DEF Connect
    <2>. QED BY <1>2, <1>3, <2>1, <2>2, <2>3
  <1>8. ASSUME NEW t \in Threads, HearRecycle(t)
        PROVE  Len(waiting') <= Cardinality(Coming') + Cardinality(Dead')
    <2>1. Coming' = Coming /\ Dead' = Dead
      BY <1>8 DEF HearRecycle, Coming, Dead
    <2>2. Len(waiting') = 0 \/ Len(waiting') = Len(waiting) - 1
      BY <1>4, <1>8, ReadyShortens DEF HearRecycle
    <2>. QED BY <1>2, <1>3, <2>1, <2>2
  <1>9. ASSUME NEW t \in Threads, ScriptDies(t)
        PROVE  Len(waiting') <= Cardinality(Coming') + Cardinality(Dead')
    <2>1. Coming' = Coming \ {t} /\ Dead' = Dead \cup {t} /\ t \notin Dead
      BY <1>4, <1>9 DEF ScriptDies, Coming, Dead, TypeOK
    <2>2. Cardinality(Coming') >= Cardinality(Coming) - 1
      BY <1>2, <2>1, FS_RemoveElement
    <2>3. Cardinality(Dead') = Cardinality(Dead) + 1
      BY <1>2, <2>1, FS_AddElement
    <2>4. waiting' = waiting
      BY <1>9 DEF ScriptDies, queue
    <2>. QED BY <1>2, <1>3, <2>2, <2>3, <2>4
  <1>10. CASE UNCHANGED <<waiting, script>>
    BY <1>3, <1>10 DEF Coming, Dead
  <1>. QED BY <1>6, <1>7, <1>8, <1>9, <1>10, WaitersStay

\* The pool's state keeps its type.
THEOREM PoolTypeCorrect == Spec => []TypeOK
  <1>1. IInv => TypeOK
    BY DEF IInv
  <1>. QED BY <1>1, Invariant, PTL

\* No thread is ever shared by two requests, however many recycle at once
\* (tactic_thread_ready, received_data).
THEOREM ThreadsUnshared == Spec => []ThreadServesOne
  <1>1. IInv => ThreadServesOne
    BY DEF IInv, ThreadServesOne, Idle, Serves
  <1>. QED BY <1>1, Invariant, PTL

\* No request waits beside an idle thread (spawn_execution_for).
THEOREM NoIdleWait == Spec => []IdleOrWaiting
  <1>1. IInv => IdleOrWaiting
    BY DEF IInv
  <1>. QED BY <1>1, Invariant, PTL

\* Stopped tactics leave no subscription (stop_tactic).
THEOREM NoSubscriptionLeaks == Spec => []NoLeakedSubscription
  <1>1. IInv => NoLeakedSubscription
    BY DEF IInv, NoLeakedSubscription, LeavesLast
  <1>. QED BY <1>1, Invariant, PTL

\* Every waiting request has a script on its way, dead ones apart, so that no
\* request depends on another's tactic recycling (spawn_execution_for).
THEOREM WaitersCounted == Spec => []WaiterHasThread
  <1>1. Init => WaiterHasThread
    <2>. SUFFICES ASSUME Init PROVE WaiterHasThread
      OBVIOUS
    <2>1. Len(waiting) = 0
      BY DEF Init
    <2>2. Cardinality(Coming) \in Nat /\ Cardinality(Dead) \in Nat
      BY CountsFinite DEF Coming, Dead
    <2>. QED BY <2>1, <2>2 DEF WaiterHasThread, Coming, Dead
  <1>. QED BY <1>1, Invariant, WaiterStep, PTL DEF Spec
===============================================================================
