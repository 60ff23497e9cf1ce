----------------------------- MODULE TacticPool -----------------------------
(***************************************************************************)
(* The pool of one kind of tactic (psp/lib/tactic_solver/tactic_pool.rb),  *)
(* its TacticThreads, which own a script process each, and the Tactic      *)
(* instances that stand between a script and the solver for one request    *)
(* (tactic.rb). The script is one written with tactic_helper.rb. Requests  *)
(* queue for threads, threads are recycled, and what was sent to a script  *)
(* before it recycled can still reach it afterwards.                       *)
(***************************************************************************)
EXTENDS Naturals, Sequences, FiniteSets

CONSTANTS
    Requests,    \* calls of spawn_execution_for; each makes one Tactic
    Threads,     \* TacticThreads that may be created, with their scripts
    None,        \* nil
    MaxQueue,    \* bound on unread messages to and from one script or Tactic
    MaxDeaths    \* bound on the scripts that die

ASSUME PoolAssumption ==
    /\ None \notin Requests \cup Threads
    /\ IsFiniteSet(Threads) /\ IsFiniteSet(Requests)
    /\ MaxQueue \in Nat /\ MaxDeaths \in Nat

VARIABLES
    pool,        \* the EM::Queue of idle threads
    waiting,     \* the requests waiting on it, its pop callbacks
    script,      \* each thread's process: unborn, starting, connected, dead
    delegate,    \* each thread's @_delegate
    session,     \* each Tactic: none, waiting, active, stopping, stopped
    threadOf,    \* each Tactic's @_tactic_thread
    toSolver,    \* each Tactic's datagrams the solver has not read
    subscribed,  \* Tactics with an entry in truth_subscribers
    toTactic,    \* Tactics with a needed_truth datagram under way
    toScript,    \* messages each script has not read
    fromScript,  \* messages of each script not read yet
    data,        \* the Tactics whose truths each script holds in @_data
    started,     \* the scripts that have all they need to execute blocks
    crashed      \* an exception has left the reactor

queue == <<pool, waiting>>
threads == <<script, delegate>>
tactics == <<session, threadOf>>
solver == <<toSolver, subscribed, toTactic>>
helper == <<data, started>>
vars == <<queue, threads, tactics, solver, toScript, fromScript, helper, crashed>>

ToScript == [kind : {"start", "truth"}, of : Requests]
FromScript == {"log", "need", "recycle"}

TypeOK ==
    /\ pool \in Seq(Threads)
    /\ waiting \in Seq(Requests)
    /\ script \in [Threads -> {"unborn", "starting", "connected", "dead"}]
    /\ delegate \in [Threads -> Requests \cup {None}]
    /\ session \in [Requests -> {"none", "waiting", "active", "stopping", "stopped"}]
    /\ threadOf \in [Requests -> Threads \cup {None}]
    /\ toSolver \in [Requests -> Seq({"need", "leave"})]
    /\ subscribed \subseteq Requests
    /\ toTactic \subseteq Requests
    /\ toScript \in [Threads -> Seq(ToScript)]
    /\ fromScript \in [Threads -> Seq(FromScript)]
    /\ data \in [Threads -> SUBSET Requests]
    /\ started \subseteq Threads
    /\ crashed \in BOOLEAN

Init ==
    /\ pool = <<>> /\ waiting = <<>>
    /\ script = [t \in Threads |-> "unborn"]
    /\ delegate = [t \in Threads |-> None]
    /\ session = [r \in Requests |-> "none"]
    /\ threadOf = [r \in Requests |-> None]
    /\ toSolver = [r \in Requests |-> <<>>]
    /\ subscribed = {} /\ toTactic = {}
    /\ toScript = [t \in Threads |-> <<>>]
    /\ fromScript = [t \in Threads |-> <<>>]
    /\ data = [t \in Threads |-> {}] /\ started = {}
    /\ crashed = FALSE

-----------------------------------------------------------------------------
(* The pool. ThreadReadyKeepsPlace, ThreadReadyUnheard, SpawnShared and    *)
(* RecycleSilently are faulty variants: each breaks a property checked     *)
(* below.                                                                  *)

\* A socket of a process that has died swallows what it is sent.
Send(t, m) ==
    toScript' = IF script[t] = "dead" THEN toScript
                ELSE [toScript EXCEPT ![t] = Append(@, m)]

\* serve_tactic_request: a new Tactic becomes the thread's delegate, asks the
\* solver for what the tactic requires and sends the script its parameters.
Serve(t, r, sessions, requests) ==
    /\ session' = [sessions EXCEPT ![r] = "active"]
    /\ threadOf' = [threadOf EXCEPT ![r] = t]
    /\ delegate' = [delegate EXCEPT ![t] = r]
    /\ toSolver' = [requests EXCEPT ![r] = <<"need">>]
    /\ Send(t, [kind |-> "start", of |-> r])

ThreadReadyKeepsPlace(t, sessions, requests) ==
    /\ pool' = Append(pool, t)
    /\ \/ /\ waiting = <<>>
          /\ delegate' = [delegate EXCEPT ![t] = None]
          /\ session' = sessions
          /\ toSolver' = requests
          /\ UNCHANGED <<waiting, threadOf, toScript>>
       \/ /\ waiting # <<>>
          /\ Serve(t, Head(waiting), sessions, requests)
          /\ waiting' = Tail(waiting)

ThreadReadyUnheard(t, sessions, requests) ==
    /\ pool' = Append(pool, t)
    /\ delegate' = [delegate EXCEPT ![t] = None]
    /\ session' = sessions
    /\ toSolver' = requests
    /\ UNCHANGED <<waiting, threadOf, toScript>>

\* EM::Queue#push: the longest waiting callback takes the thread at once.
ThreadReady(t, sessions, requests) ==
    \/ /\ waiting = <<>>
       /\ pool' = Append(pool, t)
       /\ delegate' = [delegate EXCEPT ![t] = None]
       /\ session' = sessions
       /\ toSolver' = requests
       /\ UNCHANGED <<waiting, threadOf, toScript>>
    \/ /\ waiting # <<>>
       /\ Serve(t, Head(waiting), sessions, requests)
       /\ waiting' = Tail(waiting)
       /\ UNCHANGED pool

\* spawn_execution_for when a thread is idle.
SpawnOnIdle(r) ==
    /\ ~crashed
    /\ session[r] = "none" /\ pool # <<>>
    /\ Serve(Head(pool), r, session, toSolver)
    /\ pool' = Tail(pool)
    /\ UNCHANGED <<waiting, script, subscribed, toTactic, fromScript, helper, crashed>>

SpawnShared(r, t) ==
    /\ ~crashed
    /\ session[r] = "none" /\ pool = <<>>
    /\ script[t] = "unborn"
    /\ script' = IF "starting" \in {script[u] : u \in Threads} THEN script
                 ELSE [script EXCEPT ![t] = "starting"]
    /\ session' = [session EXCEPT ![r] = "waiting"]
    /\ waiting' = Append(waiting, r)
    /\ UNCHANGED <<pool, delegate, threadOf, solver, toScript, fromScript, helper, crashed>>

\* spawn_execution_for otherwise: create a thread, and wait for any.
SpawnOnNew(r, t) ==
    /\ ~crashed
    /\ session[r] = "none" /\ pool = <<>>
    /\ script[t] = "unborn"
    /\ script' = [script EXCEPT ![t] = "starting"]
    /\ session' = [session EXCEPT ![r] = "waiting"]
    /\ waiting' = Append(waiting, r)
    /\ UNCHANGED <<pool, delegate, threadOf, solver, toScript, fromScript, helper, crashed>>

\* The script connects: register_ready_for_duty.
Connect(t) ==
    /\ ~crashed
    /\ script[t] = "starting"
    /\ script' = [script EXCEPT ![t] = "connected"]
    /\ ThreadReady(t, session, toSolver)
    /\ UNCHANGED <<subscribed, toTactic, fromScript, helper, crashed>>

-----------------------------------------------------------------------------
(* What a script says: TacticThread.received_data. A message that finds no *)
(* delegate raises NoMethodError, which receive_data does not rescue.      *)

Listen(t, m) ==
    /\ ~crashed
    /\ fromScript[t] # <<>> /\ Head(fromScript[t]) = m
    /\ fromScript' = [fromScript EXCEPT ![t] = Tail(@)]

NoDelegate(t, m) ==
    /\ Listen(t, m)
    /\ delegate[t] = None
    /\ crashed' = TRUE
    /\ UNCHANGED <<queue, threads, tactics, solver, toScript, helper>>

HearLog(t) ==
    /\ Listen(t, "log")
    /\ delegate[t] # None
    /\ UNCHANGED <<queue, threads, tactics, solver, toScript, helper, crashed>>

HearNeed(t) ==
    /\ Listen(t, "need")
    /\ delegate[t] # None
    /\ Len(toSolver[delegate[t]]) < MaxQueue
    /\ toSolver' = [toSolver EXCEPT ![delegate[t]] = Append(@, "need")]
    /\ UNCHANGED <<queue, threads, tactics, subscribed, toTactic, toScript, helper, crashed>>

RecycleSilently(t) ==
    LET r == delegate[t] IN
    /\ Listen(t, "recycle")
    /\ r # None
    /\ ThreadReady(t, [session EXCEPT ![r] = "stopping"], toSolver)
    /\ UNCHANGED <<script, subscribed, toTactic, helper, crashed>>

\* stop_tactic unsubscribes and stops the Tactic a second later; the thread
\* goes back to the pool now.
HearRecycle(t) ==
    LET r == delegate[t] IN
    /\ Listen(t, "recycle")
    /\ r # None
    /\ ThreadReady(t, [session EXCEPT ![r] = "stopping"],
                      [toSolver EXCEPT ![r] = Append(@, "leave")])
    /\ UNCHANGED <<script, subscribed, toTactic, helper, crashed>>

\* The timer of stop_tactic: the Tactic listens no more.
StopTimer(r) ==
    /\ ~crashed
    /\ session[r] = "stopping"
    /\ session' = [session EXCEPT ![r] = "stopped"]
    /\ UNCHANGED <<queue, threads, threadOf, solver, toScript, fromScript, helper, crashed>>

-----------------------------------------------------------------------------
(* The solver, as far as one Tactic sees it.                               *)

SolverReads(r) ==
    /\ ~crashed
    /\ toSolver[r] # <<>>
    /\ toSolver' = [toSolver EXCEPT ![r] = Tail(@)]
    /\ subscribed' = IF Head(toSolver[r]) = "need" THEN subscribed \cup {r}
                                                   ELSE subscribed \ {r}
    /\ UNCHANGED <<queue, threads, tactics, toTactic, toScript, fromScript, helper, crashed>>

SolverInforms(r) ==
    /\ ~crashed
    /\ r \in subscribed
    /\ toTactic' = toTactic \cup {r}
    /\ UNCHANGED <<queue, threads, tactics, toSolver, subscribed, toScript,
                   fromScript, helper, crashed>>

\* pass_on_truth: until it is stopped a Tactic writes to the thread it was
\* made for, whoever that thread serves by now.
TacticHears(r) ==
    /\ ~crashed
    /\ r \in toTactic
    /\ toTactic' = toTactic \ {r}
    /\ \/ /\ session[r] \in {"active", "stopping"}
          /\ Len(toScript[threadOf[r]]) < MaxQueue
          /\ Send(threadOf[r], [kind |-> "truth", of |-> r])
       \/ session[r] = "stopped" /\ UNCHANGED toScript
    /\ UNCHANGED <<queue, threads, tactics, toSolver, subscribed, fromScript, helper, crashed>>

-----------------------------------------------------------------------------
(* The script, built on tactic_helper.rb.                                  *)

\* handle_input: every truth is stored and logged; once the parameters of the
\* request are there the script's blocks may ask for more, and may recycle.
ScriptReads(t, recycles, needs) ==
    LET m == Head(toScript[t])
        ready == started \cup {u \in {t} : m.kind = "start"}
    IN /\ ~crashed
       /\ script[t] = "connected"
       /\ toScript[t] # <<>> /\ Len(fromScript[t]) < MaxQueue
       /\ recycles \/ needs => t \in ready
       /\ toScript' = [toScript EXCEPT ![t] = Tail(@)]
       /\ fromScript' = [fromScript EXCEPT ![t] =
              @ \o <<"log">> \o (IF needs THEN <<"need">> ELSE <<>>)
                             \o (IF recycles THEN <<"recycle">> ELSE <<>>)]
       /\ data' = [data EXCEPT ![t] = IF recycles THEN {} ELSE @ \cup {m.of}]
       /\ started' = IF recycles THEN ready \ {t} ELSE ready
       /\ UNCHANGED <<queue, threads, tactics, solver, crashed>>

\* The process ends. The thread keeps its place and its delegate.
ScriptDies(t) ==
    /\ ~crashed
    /\ script[t] \in {"starting", "connected"}
    /\ Cardinality({u \in Threads : script[u] = "dead"}) < MaxDeaths
    /\ script' = [script EXCEPT ![t] = "dead"]
    /\ toScript' = [toScript EXCEPT ![t] = <<>>]
    /\ UNCHANGED <<queue, delegate, tactics, solver, fromScript, helper, crashed>>

Next ==
    \/ \E r \in Requests :
           \/ SpawnOnIdle(r)
           \/ \E t \in Threads : SpawnOnNew(r, t)
           \/ StopTimer(r)
           \/ SolverReads(r) \/ SolverInforms(r) \/ TacticHears(r)
    \/ \E t \in Threads :
           \/ Connect(t)
           \/ \E m \in FromScript : NoDelegate(t, m)
           \/ HearLog(t) \/ HearNeed(t) \/ HearRecycle(t)
           \/ \E recycles, needs \in BOOLEAN : ScriptReads(t, recycles, needs)
           \/ ScriptDies(t)

Spec == Init /\ [][Next]_vars

\* A script that was started connects.
FairSpec == Spec /\ \A t \in Threads : WF_vars(Connect(t))

-----------------------------------------------------------------------------
(* Properties.                                                             *)

\* A thread serves one request at a time: the request a thread's messages are
\* attributed to is the only active one made for it, and an idle thread is in
\* the pool once, free of any request. Recycling never lets two users' requests
\* share a script.
ThreadServesOne ==
    /\ \A r \in Requests, t \in Threads :
           delegate[t] = r <=> session[r] = "active" /\ threadOf[r] = t
    /\ \A i, j \in DOMAIN pool : pool[i] = pool[j] => i = j
    /\ \A i \in DOMAIN pool : delegate[pool[i]] = None

\* A request waits only while every thread is busy: no wake-up is lost between
\* testing whether the pool is empty and waiting on it.
IdleOrWaiting == pool = <<>> \/ waiting = <<>>

\* Every waiting request has a script of its own on the way, so that none
\* depends on another request's tactic recycling, which a tactic may choose
\* never to do. A script that dies before it connects is the exception.
WaiterHasThread ==
    Len(waiting) <= Cardinality({t \in Threads : script[t] = "starting"})
                      + Cardinality({t \in Threads : script[t] = "dead"})

\* A Tactic that has been stopped leaves no subscription behind: as long as it
\* has one, its notice has not been read and is the last thing it said.
NoLeakedSubscription ==
    \A r \in Requests :
        session[r] \in {"stopping", "stopped"} =>
            \/ r \notin subscribed /\ toSolver[r] = <<>>
            \/ toSolver[r] # <<>> /\ toSolver[r][Len(toSolver[r])] = "leave"

\* A script in the pool is as it was when it was originally started.
RecycledIsFresh ==
    \A i \in DOMAIN pool : data[pool[i]] = {}

\* Every request is served, even if no tactic ever recycles.
RequestServed ==
    \A r \in Requests :
        (session[r] = "waiting") ~>
            (session[r] # "waiting" \/ crashed \/ \E t \in Threads : script[t] = "dead")
=============================================================================
