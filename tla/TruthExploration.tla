-------------------------- MODULE TruthExploration --------------------------
(***************************************************************************)
(* How one signpost comes to an answer: the solver, the tactic pool and    *)
(* the tactics together.  A need that the cache does not answer starts     *)
(* every tactic that provides what is needed; each has needs of its own,   *)
(* which do the same.  Solver has the inside of the timestep, users, and   *)
(* lifetimes, TacticPool the threads and the time that what the solver     *)
(* tells is on its way; here needs and new truths are read one by one, and *)
(* what the solver tells and who leaves it is known at once.               *)
(***************************************************************************)
EXTENDS Naturals, Sequences, FiniteSets, SequencesExt

CONSTANTS
    Truths,        \* names of truths, the magic variables filled in
    Tactics,       \* directories of psp/tactics
    Provides,      \* the names each tactic provides
    Requires,      \* the names each requires: none, through others, itself
    Initial,       \* truths the solver starts with
    Asks,          \* what each Question asks for
    MaxFailures    \* bound on scripts that die and truths that expire

Questions == DOMAIN Asks

VARIABLES
    cache,         \* names of the truths in the table
    subscribers,   \* <<name, client>>
    needs,         \* <<name, client>> on their way to the solver
    provided,      \* <<name, instance>> on their way to the solver
    asking,        \* of each Question: "no", "waiting" or "answered"
    instances,     \* the Tactics so far: the directory, what is needed and by
                   \* whom, the truths it holds and how it stands
    failures       \* deaths and expiries so far

explorevars ==
    <<cache, subscribers, needs, provided, asking, instances, failures>>

Askers == Questions \cup DOMAIN instances
Stages == {"working", "done", "unable", "dead"}

TypeOK ==
    /\ cache \subseteq Truths
    /\ subscribers \cup needs \subseteq Truths \X Askers
    /\ provided \subseteq Truths \X DOMAIN instances
    /\ asking \in [Questions -> {"no", "waiting", "answered"}]
    /\ instances \in Seq([tactic : Tactics, what : Truths, for : Questions \cup Nat,
                          held : SUBSET Truths, stage : Stages])
    /\ failures \in 0 .. MaxFailures

Init ==
    /\ cache = Initial
    /\ subscribers = {} /\ needs = {} /\ provided = {}
    /\ asking = [q \in Questions |-> "no"]
    /\ instances = <<>> /\ failures = 0

-----------------------------------------------------------------------------

\* A Question is made and sends its need.
Ask(q) ==
    /\ asking[q] = "no"
    /\ asking' = [asking EXCEPT ![q] = "waiting"]
    /\ needs' = needs \cup {<<Asks[q], q>>}
    /\ UNCHANGED <<cache, subscribers, provided, instances, failures>>

Providers(x) == {t \in Tactics : x \in Provides[t]}

\* explore_truth_space_for: a Tactic for each provider, which tells the solver
\* what it requires as it starts.
Started(x, c) ==
    SetToSeq({[tactic |-> t, what |-> x, for |-> c, held |-> {}, stage |-> "working"] :
                  t \in Providers(x)})

explore_truth_space_for(x, c) ==
    LET new == Started(x, c) IN
    /\ instances' = instances \o new
    /\ needs' = (needs \ {<<x, c>>})
           \cup UNION {Requires[new[i].tactic] \X {Len(instances) + i} : i \in DOMAIN new}

Without(C) == {s \in subscribers : s[2] \notin C}

\* The clients C are told x: the callback of a Question runs and it unsubscribes,
\* a Tactic passes the truth on to its script.
Tell(C, x) ==
    /\ asking' = [q \in Questions |-> IF q \in C THEN "answered" ELSE asking[q]]
    /\ instances' = [i \in DOMAIN instances |->
                         IF i \in C /\ instances[i].stage = "working"
                         THEN [instances[i] EXCEPT !.held = @ \cup {x}] ELSE instances[i]]

(* ReadNeedShared and ReadProvidedAgain are faulty variants: each breaks a *)
(* property checked below.                                                 *)
ReadNeedShared(x, c) ==
    /\ <<x, c>> \in needs
    /\ subscribers' = IF x \in cache /\ c \in Questions THEN subscribers
                      ELSE subscribers \cup {<<x, c>>}
    /\ IF x \in cache
       THEN Tell({c}, x) /\ needs' = needs \ {<<x, c>>}
       ELSE /\ IF \E d \in Askers : <<x, d>> \in subscribers
               THEN needs' = needs \ {<<x, c>>} /\ UNCHANGED instances
               ELSE explore_truth_space_for(x, c)
            /\ UNCHANGED asking
    /\ UNCHANGED <<cache, provided, failures>>

\* The client is subscribed, and the truth is found in the cache or has to be
\* generated, whoever else waits for one.
ReadNeed(x, c) ==
    /\ <<x, c>> \in needs
    /\ subscribers' = IF x \in cache /\ c \in Questions THEN subscribers
                      ELSE subscribers \cup {<<x, c>>}
    /\ IF x \in cache
       THEN Tell({c}, x) /\ needs' = needs \ {<<x, c>>}
       ELSE explore_truth_space_for(x, c) /\ UNCHANGED asking
    /\ UNCHANGED <<cache, provided, failures>>

Subscribed(x) == {c \in Askers : <<x, c>> \in subscribers}

ReadProvidedAgain(x, i, cacheable) ==
    /\ <<x, i>> \in provided
    /\ provided' = provided \ {<<x, i>>}
    /\ Tell(Subscribed(x), x) /\ subscribers' = Without(Questions \cap Subscribed(x))
    /\ cache' = IF cacheable THEN cache \cup {x} ELSE cache
    /\ needs' = IF cacheable THEN needs ELSE needs \cup {<<x, i>>}
    /\ UNCHANGED failures

\* A new truth goes to all who are subscribed. A tactic may give it a ttl of
\* zero (dns does as the answer has it), and it is not kept.
ReadProvided(x, i, cacheable) ==
    /\ <<x, i>> \in provided
    /\ provided' = provided \ {<<x, i>>}
    /\ Tell(Subscribed(x), x) /\ subscribers' = Without(Questions \cap Subscribed(x))
    /\ cache' = IF cacheable THEN cache \cup {x} ELSE cache
    /\ UNCHANGED <<needs, failures>>

\* A script that has what it requires provides the truth or does not, and
\* recycles: its Tactic unsubscribes.
Recycle(i, provides) ==
    /\ instances[i].stage = "working"
    /\ Requires[instances[i].tactic] \subseteq instances[i].held
    /\ instances' = [instances EXCEPT ![i].stage = IF provides THEN "done" ELSE "unable"]
    /\ provided' = IF provides THEN provided \cup {<<instances[i].what, i>>} ELSE provided
    /\ subscribers' = Without({i})
    /\ UNCHANGED <<cache, needs, asking, failures>>

Fault == failures < MaxFailures /\ failures' = failures + 1

\* A script dies or is heard of no more, and its Tactic stays subscribed.
Die(i) ==
    /\ instances[i].stage = "working" /\ Fault
    /\ instances' = [instances EXCEPT ![i].stage = "dead"]
    /\ UNCHANGED <<cache, subscribers, needs, provided, asking>>

\* A truth is over, also one of the initial ones, which no tactic provides.
Expire(x) ==
    /\ x \in cache /\ Fault
    /\ cache' = cache \ {x}
    /\ UNCHANGED <<subscribers, needs, provided, asking, instances>>

Solve ==
    \/ \E need \in needs : ReadNeed(need[1], need[2])
    \/ \E new \in provided, cacheable \in BOOLEAN : ReadProvided(new[1], new[2], cacheable)

Work == \E i \in DOMAIN instances, provides \in BOOLEAN : Recycle(i, provides)

Next ==
    \/ Solve \/ Work
    \/ \E q \in Questions : Ask(q)
    \/ \E i \in DOMAIN instances : Die(i)
    \/ \E x \in Truths : Expire(x)

Spec == Init /\ [][Next]_explorevars

\* What is sent is read, and a script that has what it requires comes to an end.
Fairness == WF_explorevars(Solve) /\ WF_explorevars(Work)

FairSpec == Spec /\ Fairness

-----------------------------------------------------------------------------
(* Properties.                                                             *)

\* x is what c is there to be told and was not.
WaitsFor(c, x) ==
    \/ c \in Questions /\ asking[c] = "waiting" /\ x = Asks[c]
    \/ /\ c \in DOMAIN instances /\ instances[c].stage = "working"
       /\ x \in Requires[instances[c].tactic] \ instances[c].held

\* Whoever waits for a truth has its need unread, or is subscribed with every
\* tactic that provides the truth started for it: and of those one still works, or
\* its truth is on its way, or it failed. However needs, truths, deaths and expiries
\* overtake each other, no truth that came is missed.
NoneWaitsInVain ==
    \A c \in Askers : \A x \in Truths : WaitsFor(c, x) =>
        \/ <<x, c>> \in needs
        \/ /\ <<x, c>> \in subscribers
           /\ \A t \in Providers(x) : \E i \in DOMAIN instances :
                  /\ instances[i].tactic = t /\ instances[i].what = x /\ instances[i].for = c
                  /\ instances[i].stage = "done" => <<x, i>> \in provided

\* Nothing keeps the solver from exploring one truth twice at a time, but each
\* Tactic is started once: for what a Question asks or an earlier Tactic requires.
\* The Tactics are trees that grow from the Questions along what is required, so
\* where no truth requires itself no Question costs more than the derivation of its
\* truth, whatever expires meanwhile.
StartedOnce ==
    \A i \in DOMAIN instances :
        /\ \/ instances[i].for \in Questions /\ instances[i].what = Asks[instances[i].for]
           \/ /\ instances[i].for \in 1 .. i - 1
              /\ instances[i].what \in Requires[instances[instances[i].for].tactic]
        /\ \A j \in 1 .. i - 1 :
               <<instances[i].tactic, instances[i].what, instances[i].for>>
                   # <<instances[j].tactic, instances[j].what, instances[j].for>>
=============================================================================
