------------------------- MODULE ExplorationProofs -------------------------
(***************************************************************************)
(* Proofs about the chain of tactics behind an answer (TruthExploration,   *)
(* as the instance that Programs has), for all truths, tactics, Questions, *)
(* whatever tactics provide and require, be it in a circle, and any number *)
(* of failures.                                                            *)
(***************************************************************************)
EXTENDS Sequences, Programs, FiniteSetTheorems, TLAPS

Questions == DOMAIN Asks
Tactics == [tactic : Scripts, what : Truths, for : Questions \cup Nat,
            held : SUBSET Truths, stage : {"working", "done", "unable", "dead"}]
Askers == Questions \cup DOMAIN instances
Providers(x) == {t \in Scripts : x \in ScriptProvides[t]}

-----------------------------------------------------------------------------
(* The tactics that start.                                                 *)

\* A finite set put in a sequence is all there, each element once.
LEMMA InSequence ==
    ASSUME NEW S, IsFiniteSet(S)
    PROVE  LET f == Exploration!SetToSeq(S)
               n == Cardinality(S)
           IN  /\ n \in Nat
               /\ f \in [1 .. n -> S]
               /\ \A i, j \in 1 .. n : f[i] = f[j] => i = j
               /\ \A x \in S : \E i \in 1 .. n : f[i] = x
  <1> DEFINE n == Exploration!Cardinality(S)
             f == CHOOSE g \in [1 .. n -> S] : Exploration!IsInjective(g)
  <1>1. n = Cardinality(S)
    BY DEF Cardinality, Exploration!Cardinality
  <1>2. n \in Nat /\ ExistsBijection(1 .. n, S)
    BY <1>1, FS_CardinalityType
  <1>3. f \in [1 .. n -> S] /\ Exploration!IsInjective(f)
    <2>. \E g \in [1 .. n -> S] : Exploration!IsInjective(g)
      BY <1>2 DEF ExistsBijection, Bijection, Injection, IsInjective,
                  Exploration!IsInjective
    <2>. QED OBVIOUS
  <1>4. f = Exploration!SetToSeq(S)
    BY DEF Exploration!SetToSeq
  <1>. HIDE DEF f
  <1>5. f \in Injection(1 .. n, S)
    BY <1>3 DEF Injection, IsInjective, Exploration!IsInjective
  <1>6. Cardinality(1 .. n) = Cardinality(S)
    BY <1>1, <1>2, FS_Interval
  <1>7. f \in Surjection(1 .. n, S)
    BY <1>2, <1>5, <1>6, FS_Injection, FS_Interval
  <1>8. \A i, j \in 1 .. n : f[i] = f[j] => i = j
    BY <1>5 DEF Injection, IsInjective
  <1>. HIDE DEF n
  <1>. QED BY <1>1, <1>2, <1>3, <1>4, <1>7, <1>8 DEF Surjection

\* Started has one Tactic at work for each provider.
LEMMA OneForEach ==
    ASSUME NEW x \in Truths, NEW c \in Questions \cup Nat
    PROVE  LET new == Exploration!Started(x, c)
           IN  /\ new \in Seq(Tactics)
               /\ \A i \in DOMAIN new :
                      /\ new[i].tactic \in Providers(x)
                      /\ new[i].what = x /\ new[i].for = c
                      /\ new[i].held = {} /\ new[i].stage = "working"
               /\ \A i, j \in DOMAIN new : new[i].tactic = new[j].tactic => i = j
               /\ \A t \in Providers(x) : \E i \in DOMAIN new : new[i].tactic = t
  <1> DEFINE Fresh(t) == [tactic |-> t, what |-> x, for |-> c,
                          held |-> {}, stage |-> "working"]
             S == {Fresh(t) : t \in Providers(x)}
             start == [t \in Providers(x) |-> Fresh(t)]
             new == Exploration!SetToSeq(S)
  <1>1. IsFiniteSet(S)
    <2>1. IsFiniteSet(Providers(x))
      BY ProgramsAssumption, FS_Subset DEF Providers
    <2>2. start \in Surjection(Providers(x), S)
      BY DEF Surjection
    <2>. QED BY <2>1, <2>2, FS_Surjection
  <1>2. new = Exploration!Started(x, c)
    BY DEF Exploration!Started, Exploration!Providers, Providers
  <1>3. /\ Cardinality(S) \in Nat
        /\ new \in [1 .. Cardinality(S) -> S]
        /\ \A i, j \in 1 .. Cardinality(S) : new[i] = new[j] => i = j
        /\ \A r \in S : \E i \in 1 .. Cardinality(S) : new[i] = r
    BY <1>1, InSequence
  <1>4. \A r \in S : \E t \in Providers(x) : r = Fresh(t)
    OBVIOUS
  <1>6. \A t \in Providers(x) : Fresh(t) \in S /\ Fresh(t).tactic = t
    OBVIOUS
  <1>7. \A t \in Providers(x) : Fresh(t) \in Tactics
    <2>. SUFFICES ASSUME NEW t \in Providers(x) PROVE Fresh(t) \in Tactics
      OBVIOUS
    <2>. t \in Scripts /\ {} \in SUBSET Truths
      BY DEF Providers
    <2>. QED BY DEF Tactics
  <1>8. \A t \in Providers(x) : /\ Fresh(t).what = x /\ Fresh(t).for = c
                                /\ Fresh(t).held = {} /\ Fresh(t).stage = "working"
    OBVIOUS
  <1>. HIDE DEF new, S, Fresh
  <1>9. DOMAIN new = 1 .. Cardinality(S)
    BY <1>3
  <1>10. \A i \in DOMAIN new : \E t \in Providers(x) : new[i] = Fresh(t)
    BY <1>3, <1>4, <1>9
  <1>11. new \in Seq(Tactics)
    <2>. \A i \in 1 .. Cardinality(S) : new[i] \in Tactics
      BY <1>7, <1>9, <1>10
    <2>. QED BY <1>3
  <1>12. \A t \in Providers(x) : \E i \in DOMAIN new : new[i].tactic = t
    <2>. TAKE t \in Providers(x)
    <2>. PICK i \in DOMAIN new : new[i] = Fresh(t)
      BY <1>3, <1>6, <1>9
    <2>. QED BY <1>6
  <1>13. \A i, j \in DOMAIN new : new[i].tactic = new[j].tactic => i = j
    <2>. TAKE i, j \in DOMAIN new
    <2>. PICK t \in Providers(x), u \in Providers(x) : new[i] = Fresh(t) /\ new[j] = Fresh(u)
      BY <1>10
    <2>. QED BY <1>3, <1>6, <1>9
  <1>14. \A i \in DOMAIN new :
             /\ new[i].tactic \in Providers(x) /\ new[i].what = x /\ new[i].for = c
             /\ new[i].held = {} /\ new[i].stage = "working"
    BY <1>6, <1>8, <1>10
  <1>. QED BY <1>2, <1>11, <1>12, <1>13, <1>14 DEF S, Fresh

\* What explore_truth_space_for does, Tactic by Tactic and need by need.
LEMMA Explored ==
    ASSUME instances \in Seq(Tactics), NEW x \in Truths, NEW c \in Questions \cup Nat,
           Exploration!explore_truth_space_for(x, c)
    PROVE  /\ instances' \in Seq(Tactics)
           /\ Len(instances) <= Len(instances')
           /\ \A i \in DOMAIN instances :
                  i \in DOMAIN instances' /\ instances'[i] = instances[i]
           /\ \A i \in DOMAIN instances' \ DOMAIN instances :
                  /\ instances'[i].tactic \in Providers(x)
                  /\ instances'[i].what = x /\ instances'[i].for = c
                  /\ instances'[i].held = {} /\ instances'[i].stage = "working"
           /\ \A i, j \in DOMAIN instances' \ DOMAIN instances :
                  instances'[i].tactic = instances'[j].tactic => i = j
           /\ \A t \in Providers(x) : \E i \in DOMAIN instances' \ DOMAIN instances :
                  instances'[i].tactic = t
           /\ \A n \in needs' :
                  \/ n \in needs /\ n # <<x, c>>
                  \/ \E i \in DOMAIN instances' \ DOMAIN instances :
                         \E y \in ScriptRequires[instances'[i].tactic] : n = <<y, i>>
           /\ \A n \in needs : n = <<x, c>> \/ n \in needs'
           /\ \A i \in DOMAIN instances' \ DOMAIN instances :
                  \A y \in ScriptRequires[instances'[i].tactic] : <<y, i>> \in needs'
  <1> DEFINE new == Exploration!Started(x, c)
             sends == {ScriptRequires[new[i].tactic] \X {Len(instances) + i} :
                           i \in DOMAIN new}
  <1>1. /\ new \in Seq(Tactics)
        /\ \A i \in DOMAIN new :
               /\ new[i].tactic \in Providers(x)
               /\ new[i].what = x /\ new[i].for = c
               /\ new[i].held = {} /\ new[i].stage = "working"
        /\ \A i, j \in DOMAIN new : new[i].tactic = new[j].tactic => i = j
        /\ \A t \in Providers(x) : \E i \in DOMAIN new : new[i].tactic = t
    BY OneForEach
  <1>2. /\ instances' = instances \o new
        /\ needs' = (needs \ {<<x, c>>}) \cup UNION sends
    BY DEF Exploration!explore_truth_space_for
  <1>. HIDE DEF new
  <1>3. /\ instances' \in Seq(Tactics)
        /\ Len(instances') = Len(instances) + Len(new)
        /\ \A i \in 1 .. Len(instances) : instances'[i] = instances[i]
        /\ \A i \in 1 .. Len(new) : instances'[Len(instances) + i] = new[i]
    BY <1>1, <1>2
  <1>4. /\ Len(instances) \in Nat /\ Len(new) \in Nat
        /\ DOMAIN instances = 1 .. Len(instances) /\ DOMAIN new = 1 .. Len(new)
        /\ DOMAIN instances' = 1 .. Len(instances')
    BY <1>1, <1>3
  <1>5. \A i \in DOMAIN instances' \ DOMAIN instances :
            /\ i - Len(instances) \in DOMAIN new
            /\ instances'[i] = new[i - Len(instances)]
            /\ Len(instances) + (i - Len(instances)) = i
    BY <1>3, <1>4
  <1>6. \A i \in DOMAIN new : Len(instances) + i \in DOMAIN instances' \ DOMAIN instances
    BY <1>3, <1>4
  <1>7. /\ Len(instances) <= Len(instances')
        /\ \A i \in DOMAIN instances : i \in DOMAIN instances' /\ instances'[i] = instances[i]
    BY <1>3, <1>4
  <1>8. \A i \in DOMAIN instances' \ DOMAIN instances :
            /\ instances'[i].tactic \in Providers(x)
            /\ instances'[i].what = x /\ instances'[i].for = c
            /\ instances'[i].held = {} /\ instances'[i].stage = "working"
    BY <1>1, <1>5
  <1>9. \A i, j \in DOMAIN instances' \ DOMAIN instances :
            instances'[i].tactic = instances'[j].tactic => i = j
    BY <1>1, <1>4, <1>5
  <1>10. \A t \in Providers(x) : \E i \in DOMAIN instances' \ DOMAIN instances :
             instances'[i].tactic = t
    BY <1>1, <1>3, <1>4, <1>6
  <1>11. ASSUME NEW n \in needs'
         PROVE  \/ n \in needs /\ n # <<x, c>>
                \/ \E i \in DOMAIN instances' \ DOMAIN instances :
                       \E y \in ScriptRequires[instances'[i].tactic] : n = <<y, i>>
    <2>1. CASE n \in needs \ {<<x, c>>}
      BY <2>1
    <2>2. CASE n \in UNION sends
      <3>1. PICK i \in DOMAIN new :
                n \in ScriptRequires[new[i].tactic] \X {Len(instances) + i}
        BY <2>2
      <3>2. instances'[Len(instances) + i] = new[i]
        BY <1>3, <1>4
      <3>. QED BY <1>6, <3>1, <3>2
    <2>. QED BY <1>2, <2>1, <2>2
  <1>12. \A n \in needs : n = <<x, c>> \/ n \in needs'
    BY <1>2
  <1>13. ASSUME NEW i \in DOMAIN instances' \ DOMAIN instances,
                NEW y \in ScriptRequires[instances'[i].tactic]
         PROVE  <<y, i>> \in needs'
    <2>1. <<y, i>> \in ScriptRequires[new[i - Len(instances)].tactic]
                           \X {Len(instances) + (i - Len(instances))}
      BY <1>5
    <2>. QED BY <1>2, <1>5, <2>1
  <1>. QED BY <1>3, <1>7, <1>8, <1>9, <1>10, <1>11, <1>12, <1>13

-----------------------------------------------------------------------------
(* The inductive invariant.                                                *)

\* A need that is on its way is that of a Question that was asked, or of a Tactic
\* that requires it.
Sent ==
    \A x \in Truths, c \in Askers : <<x, c>> \in needs =>
        \/ c \in Questions /\ x = Asks[c] /\ asking[c] # "no"
        \/ c \in DOMAIN instances /\ x \in ScriptRequires[instances[c].tactic]

\* As long as it is on its way, no Tactic was started for it.
NotYet ==
    \A x \in Truths, c \in Askers : <<x, c>> \in needs =>
        \A i \in DOMAIN instances : instances[i].what # x \/ instances[i].for # c

\* No Tactic was started for a Question that was not asked.
AskedFirst ==
    \A i \in DOMAIN instances :
        instances[i].for \in Questions => asking[instances[i].for] # "no"

ExplorationInv ==
    /\ Exploration!TypeOK
    /\ Sent /\ NotYet /\ AskedFirst
    /\ StartedOnce /\ NoneWaitsInVain

\* What the types say, in the words of these proofs.
LEMMA ExplorationTypes ==
    Exploration!TypeOK <=>
        /\ cache \subseteq Truths
        /\ subscribers \subseteq Truths \X Askers
        /\ needs \subseteq Truths \X Askers
        /\ provided \subseteq Truths \X DOMAIN instances
        /\ asking \in [Questions -> {"no", "waiting", "answered"}]
        /\ instances \in Seq(Tactics)
        /\ failures \in 0 .. MaxFailures
  BY DEF Exploration!TypeOK, Exploration!Askers, Exploration!Questions, Exploration!Stages,
         Askers, Questions, Tactics

\* The same after a step.
LEMMA TypesNext ==
    Exploration!TypeOK' <=>
        /\ cache' \subseteq Truths
        /\ subscribers' \subseteq Truths \X Askers'
        /\ needs' \subseteq Truths \X Askers'
        /\ provided' \subseteq Truths \X DOMAIN instances'
        /\ asking' \in [Questions -> {"no", "waiting", "answered"}]
        /\ instances' \in Seq(Tactics)
        /\ failures' \in 0 .. MaxFailures
  BY DEF Exploration!TypeOK, Exploration!Askers, Exploration!Questions, Exploration!Stages,
         Askers, Questions, Tactics

\* Of whoever is told x, only what it holds and whether it waits changes.
LEMMA Told ==
    ASSUME Exploration!TypeOK, NEW C, NEW x \in Truths, Exploration!Tell(C, x)
    PROVE  /\ instances' \in Seq(Tactics)
           /\ DOMAIN instances' = DOMAIN instances
           /\ \A i \in DOMAIN instances :
                  /\ instances'[i].tactic = instances[i].tactic
                  /\ instances'[i].what = instances[i].what
                  /\ instances'[i].for = instances[i].for
                  /\ instances'[i].stage = instances[i].stage
                  /\ instances[i].held \subseteq instances'[i].held
                  /\ i \in C /\ instances[i].stage = "working" => x \in instances'[i].held
           /\ asking' \in [Questions -> {"no", "waiting", "answered"}]
           /\ \A q \in Questions :
                  asking'[q] = IF q \in C THEN "answered" ELSE asking[q]
  <1>1. instances \in Seq(Tactics) /\ asking \in [Questions -> {"no", "waiting", "answered"}]
    BY ExplorationTypes
  <1>2. /\ asking' = [q \in Questions |-> IF q \in C THEN "answered" ELSE asking[q]]
        /\ instances' = [i \in DOMAIN instances |->
                             IF i \in C /\ instances[i].stage = "working"
                             THEN [instances[i] EXCEPT !.held = @ \cup {x}] ELSE instances[i]]
    BY DEF Exploration!Tell, Exploration!Questions, Questions
  <1>3. \A i \in DOMAIN instances : instances[i] \in Tactics
    BY <1>1
  <1>4. ASSUME NEW i \in DOMAIN instances
        PROVE  /\ instances'[i] \in Tactics
               /\ instances'[i].tactic = instances[i].tactic
               /\ instances'[i].what = instances[i].what
               /\ instances'[i].for = instances[i].for
               /\ instances'[i].stage = instances[i].stage
               /\ instances[i].held \subseteq instances'[i].held
               /\ i \in C /\ instances[i].stage = "working" => x \in instances'[i].held
    BY <1>2, <1>3 DEF Tactics
  <1>5. instances' \in Seq(Tactics) /\ DOMAIN instances' = DOMAIN instances
    <2>1. DOMAIN instances' = DOMAIN instances /\ DOMAIN instances = 1 .. Len(instances)
      BY <1>1, <1>2
    <2>2. instances' \in [1 .. Len(instances) -> Tactics]
      BY <1>2, <1>4, <2>1
    <2>. QED BY <1>1, <2>1, <2>2
  <1>. QED BY <1>1, <1>2, <1>4, <1>5

\* A step that starts no Tactic, and after which no more needs are on their way,
\* keeps what the needs and Tactics have to do with each other.
LEMMA NoneStarted ==
    ASSUME Sent, NotYet, AskedFirst, StartedOnce, instances \in Seq(Tactics),
           needs \subseteq Truths \X Askers,
           needs' \subseteq needs, instances' \in Seq(Tactics),
           DOMAIN instances' = DOMAIN instances,
           \A i \in DOMAIN instances : /\ instances'[i].tactic = instances[i].tactic
                                       /\ instances'[i].what = instances[i].what
                                       /\ instances'[i].for = instances[i].for,
           \A q \in Questions : asking'[q] = "no" => asking[q] = "no"
    PROVE  (Sent /\ NotYet /\ AskedFirst /\ StartedOnce)'
  <1>1. Askers' = Askers
    BY DEF Askers
  <1>2. Sent'
    BY <1>1 DEF Sent
  <1>3. NotYet'
    BY <1>1 DEF NotYet
  <1>4. AskedFirst'
    BY DEF AskedFirst
  <1>5. StartedOnce'
    <2>1. \A i \in DOMAIN instances : 1 .. i - 1 \subseteq DOMAIN instances
      OBVIOUS
    <2>. QED BY <2>1 DEF StartedOnce, Exploration!StartedOnce, Exploration!Questions, Questions
  <1>. QED BY <1>2, <1>3, <1>4, <1>5

-----------------------------------------------------------------------------
(* The steps.                                                              *)

\* c has its need of x unread, or is subscribed with the Tactics for x at work.
Helped(c, x) ==
    \/ <<x, c>> \in needs
    \/ /\ <<x, c>> \in subscribers
       /\ \A t \in Providers(x) : \E i \in DOMAIN instances :
              /\ instances[i].tactic = t /\ instances[i].what = x /\ instances[i].for = c
              /\ instances[i].stage = "done" => <<x, i>> \in provided

\* NoneWaitsInVain in the words of these proofs.
LEMMA NoneWaits ==
    NoneWaitsInVain <=>
        \A c \in Askers, x \in Truths : Exploration!WaitsFor(c, x) => Helped(c, x)
  BY DEF NoneWaitsInVain, Exploration!NoneWaitsInVain, Exploration!Askers, Askers, Helped,
         Exploration!Questions, Questions, Exploration!Providers, Providers

\* The same after a step.
LEMMA NoneWaitsNext ==
    NoneWaitsInVain' <=>
        \A c \in Askers', x \in Truths : Exploration!WaitsFor(c, x)' => Helped(c, x)'
  BY DEF NoneWaitsInVain, Exploration!NoneWaitsInVain, Exploration!Askers, Askers, Helped,
         Exploration!Questions, Questions, Exploration!Providers, Providers

\* Every Tactic is still there, and if it is done with x, x is on its way if it
\* was, or if the Tactic was not yet done.
StillThere(x) ==
    \A i \in DOMAIN instances :
        /\ i \in DOMAIN instances'
        /\ instances'[i].tactic = instances[i].tactic
        /\ instances'[i].what = instances[i].what
        /\ instances'[i].for = instances[i].for
        /\ instances[i].what = x /\ instances'[i].stage = "done" =>
               \/ <<x, i>> \in provided'
               \/ instances[i].stage = "done" /\ <<x, i>> \notin provided

\* Nobody waits any more who did not, and what helps who waits is still there.
LEMMA StillHelped ==
    ASSUME NoneWaitsInVain, NEW c \in Askers, NEW x \in Truths,
           Exploration!WaitsFor(c, x),
           <<x, c>> \in needs => <<x, c>> \in needs',
           <<x, c>> \in subscribers => <<x, c>> \in subscribers',
           StillThere(x)
    PROVE  Helped(c, x)'
  <1>1. CASE <<x, c>> \in needs
    BY <1>1 DEF Helped
  <1>2. CASE <<x, c>> \notin needs
    <2>1. /\ <<x, c>> \in subscribers
          /\ \A t \in Providers(x) : \E i \in DOMAIN instances :
                 /\ instances[i].tactic = t /\ instances[i].what = x
                 /\ instances[i].for = c
                 /\ instances[i].stage = "done" => <<x, i>> \in provided
      BY <1>2, NoneWaits DEF Helped
    <2>2. ASSUME NEW t \in Providers(x)
          PROVE  \E i \in DOMAIN instances' :
                     /\ instances'[i].tactic = t /\ instances'[i].what = x
                     /\ instances'[i].for = c
                     /\ instances'[i].stage = "done" => <<x, i>> \in provided'
      <3>1. PICK i \in DOMAIN instances :
                     /\ instances[i].tactic = t /\ instances[i].what = x
                     /\ instances[i].for = c
                     /\ instances[i].stage = "done" => <<x, i>> \in provided
        BY <2>1
      <3>. i \in DOMAIN instances'
        BY DEF StillThere
      <3>. WITNESS i \in DOMAIN instances'
      <3>. QED BY <3>1 DEF StillThere
    <2>. QED BY <2>1, <2>2 DEF Helped
  <1>. QED BY <1>1, <1>2

\* A Question that is asked: its need is on its way, and no Tactic was started.
LEMMA AskStep ==
    ASSUME ExplorationInv, NEW q \in Questions, Exploration!Ask(q)
    PROVE  ExplorationInv'
  <1>. USE DEF ExplorationInv
  <1>1. /\ asking[q] = "no" /\ asking' = [asking EXCEPT ![q] = "waiting"]
        /\ needs' = needs \cup {<<Asks[q], q>>}
        /\ UNCHANGED <<cache, subscribers, provided, instances, failures>>
    BY DEF Exploration!Ask
  <1>2. Asks[q] \in Truths /\ q \notin DOMAIN instances /\ Askers' = Askers
    <2>. DOMAIN instances \subseteq Nat
      BY ExplorationTypes
    <2>. QED BY <1>1, ProgramsAssumption DEF Questions, Askers
  <1>3. Exploration!TypeOK'
    <2>. <<Asks[q], q>> \in Truths \X Askers
      BY <1>2 DEF Askers
    <2>. QED BY <1>1, <1>2, ExplorationTypes, TypesNext
  <1>4. Sent'
    <2>. SUFFICES ASSUME NEW x \in Truths, NEW c \in Askers, <<x, c>> \in needs'
                  PROVE  \/ c \in Questions /\ x = Asks[c] /\ asking'[c] # "no"
                         \/ c \in DOMAIN instances /\ x \in ScriptRequires[instances[c].tactic]
      BY <1>1, <1>2 DEF Sent
    <2>1. CASE <<x, c>> = <<Asks[q], q>>
      BY <1>1, <2>1, ExplorationTypes
    <2>2. CASE <<x, c>> \in needs
      BY <1>1, <2>2, ExplorationTypes DEF Sent
    <2>. QED BY <1>1, <2>1, <2>2
  <1>5. NotYet'
    BY <1>1, <1>2 DEF NotYet, AskedFirst
  <1>6. AskedFirst'
    BY <1>1, ExplorationTypes DEF AskedFirst
  <1>7. StartedOnce'
    BY <1>1 DEF StartedOnce, Exploration!StartedOnce
  <1>8. NoneWaitsInVain'
    <2>. SUFFICES ASSUME NEW c \in Askers, NEW x \in Truths, Exploration!WaitsFor(c, x)'
                  PROVE  Helped(c, x)'
      BY <1>2, NoneWaitsNext
    <2>1. CASE c = q
      BY <1>1, <1>2, <2>1 DEF Exploration!WaitsFor, Helped
    <2>2. CASE c # q
      <3>. Exploration!WaitsFor(c, x)
        BY <1>1, <2>2, ExplorationTypes DEF Exploration!WaitsFor, Exploration!Questions
      <3>. StillThere(x)
        BY <1>1 DEF StillThere
      <3>. QED BY <1>1, StillHelped
    <2>. QED BY <2>1, <2>2
  <1>. QED BY <1>3, <1>4, <1>5, <1>6, <1>7, <1>8

\* A need that the cache answers: its client is told, and waits no more.
LEMMA AnswerStep ==
    ASSUME ExplorationInv, NEW y \in Truths, NEW d \in Askers,
           Exploration!ReadNeed(y, d), y \in cache
    PROVE  ExplorationInv'
  <1>. USE DEF ExplorationInv
  <1>1. /\ Exploration!Tell({d}, y)
        /\ needs' = needs \ {<<y, d>>}
        /\ subscribers' = IF d \in Questions THEN subscribers
                          ELSE subscribers \cup {<<y, d>>}
        /\ UNCHANGED <<cache, provided, failures>>
    BY DEF Exploration!ReadNeed, Exploration!Questions, Questions
  <1>2. /\ instances' \in Seq(Tactics)
        /\ DOMAIN instances' = DOMAIN instances
        /\ \A i \in DOMAIN instances :
               /\ instances'[i].tactic = instances[i].tactic
               /\ instances'[i].what = instances[i].what
               /\ instances'[i].for = instances[i].for
               /\ instances'[i].stage = instances[i].stage
               /\ instances[i].held \subseteq instances'[i].held
               /\ i = d /\ instances[i].stage = "working" => y \in instances'[i].held
        /\ asking' \in [Questions -> {"no", "waiting", "answered"}]
        /\ \A q \in Questions : asking'[q] = IF q = d THEN "answered" ELSE asking[q]
    <2>. \A c : c \in {d} <=> c = d
      OBVIOUS
    <2>. QED BY <1>1, Told
  <1>3. Askers' = Askers
    BY <1>2 DEF Askers
  <1>4. Exploration!TypeOK'
    BY <1>1, <1>2, <1>3, ExplorationTypes, TypesNext
  <1>5. (Sent /\ NotYet /\ AskedFirst /\ StartedOnce)'
    BY <1>1, <1>2, NoneStarted, ExplorationTypes
  <1>6. NoneWaitsInVain'
    <2>. SUFFICES ASSUME NEW c \in Askers, NEW x \in Truths, Exploration!WaitsFor(c, x)'
                  PROVE  Helped(c, x)'
      BY <1>3, NoneWaitsNext
    <2>1. Exploration!WaitsFor(c, x) /\ <<x, c>> # <<y, d>>
      BY <1>2 DEF Exploration!WaitsFor, Exploration!Questions, Questions
    <2>2. <<x, c>> \in needs => <<x, c>> \in needs'
      BY <1>1, <2>1
    <2>3. <<x, c>> \in subscribers => <<x, c>> \in subscribers'
      BY <1>1
    <2>4. StillThere(x)
      BY <1>1, <1>2 DEF StillThere
    <2>5. NoneWaitsInVain
      OBVIOUS
    <2>. HIDE DEF ExplorationInv
    <2>. QED BY <2>1, <2>2, <2>3, <2>4, <2>5, StillHelped
  <1>. QED BY <1>4, <1>5, <1>6

\* A need that the cache does not answer: a Tactic starts for each provider, and
\* tells what it requires.
LEMMA ExploreStep ==
    ASSUME ExplorationInv, NEW y \in Truths, NEW d \in Askers,
           Exploration!ReadNeed(y, d), y \notin cache
    PROVE  ExplorationInv'
  <1> DEFINE New == DOMAIN instances' \ DOMAIN instances
  <1>1. /\ <<y, d>> \in needs
        /\ Exploration!explore_truth_space_for(y, d)
        /\ subscribers' = subscribers \cup {<<y, d>>}
        /\ UNCHANGED <<cache, provided, failures, asking>>
    BY DEF Exploration!ReadNeed
  <1>2. Exploration!TypeOK /\ instances \in Seq(Tactics) /\ d \in Questions \cup Nat
    BY ExplorationTypes DEF ExplorationInv, Askers
  <1>3. /\ instances' \in Seq(Tactics)
        /\ Len(instances) <= Len(instances')
        /\ \A i \in DOMAIN instances : i \in DOMAIN instances' /\ instances'[i] = instances[i]
        /\ \A i \in New : /\ instances'[i].tactic \in Providers(y)
                          /\ instances'[i].what = y /\ instances'[i].for = d
                          /\ instances'[i].held = {} /\ instances'[i].stage = "working"
        /\ \A i, j \in New : instances'[i].tactic = instances'[j].tactic => i = j
        /\ \A t \in Providers(y) : \E i \in New : instances'[i].tactic = t
    BY <1>1, <1>2, Explored
  <1>4. /\ \A n \in needs' :
               \/ n \in needs /\ n # <<y, d>>
               \/ \E i \in New : \E z \in ScriptRequires[instances'[i].tactic] : n = <<z, i>>
        /\ \A n \in needs : n = <<y, d>> \/ n \in needs'
        /\ \A i \in New : \A z \in ScriptRequires[instances'[i].tactic] : <<z, i>> \in needs'
    BY <1>1, <1>2, Explored
  <1>5. /\ DOMAIN instances \subseteq DOMAIN instances' /\ DOMAIN instances' \subseteq Nat
        /\ Askers' = Askers \cup New
        /\ \A i \in New : i \notin DOMAIN instances /\ i \notin Questions /\ i \in Nat
        /\ \A i \in DOMAIN instances : i \notin New /\ i \notin Questions
    BY <1>2, <1>3, ProgramsAssumption DEF Askers, Questions
  <1>6. \A i \in DOMAIN instances, j \in New : i < j
    BY <1>2, <1>3
  <1>7. Exploration!TypeOK'
    <2>1. \A i \in New : ScriptRequires[instances'[i].tactic] \subseteq Truths
      BY <1>3, ProgramsAssumption DEF Providers
    <2>2. needs' \subseteq Truths \X Askers'
      BY <1>2, <1>4, <1>5, <2>1, ExplorationTypes
    <2>. QED BY <1>1, <1>2, <1>3, <1>5, <2>2, ExplorationTypes, TypesNext
  <1>8. /\ d \in Questions => y = Asks[d] /\ asking[d] # "no"
        /\ d \in DOMAIN instances => y \in ScriptRequires[instances[d].tactic]
        /\ \A i \in DOMAIN instances : instances[i].what # y \/ instances[i].for # d
    BY <1>1, <1>5 DEF ExplorationInv, Sent, NotYet, Questions
  <1>. HIDE DEF New
  <1>9. Sent'
    <2>. SUFFICES ASSUME NEW x \in Truths, NEW c \in Askers', <<x, c>> \in needs'
                  PROVE  \/ c \in Questions /\ x = Asks[c] /\ asking'[c] # "no"
                         \/ c \in DOMAIN instances' /\ x \in ScriptRequires[instances'[c].tactic]
      BY DEF Sent
    <2>1. CASE <<x, c>> \in needs
      <3>1. c \in Askers
        BY <1>2, <2>1, ExplorationTypes
      <3>. QED BY <1>1, <1>3, <2>1, <3>1 DEF ExplorationInv, Sent
    <2>2. CASE <<x, c>> \notin needs
      BY <1>4, <2>2 DEF New
    <2>. QED BY <2>1, <2>2
  <1>10. NotYet'
    <2>. SUFFICES ASSUME NEW x \in Truths, NEW c \in Askers', <<x, c>> \in needs',
                         NEW i \in DOMAIN instances'
                  PROVE  instances'[i].what # x \/ instances'[i].for # c
      BY DEF NotYet
    <2>1. CASE <<x, c>> \in needs /\ <<x, c>> # <<y, d>>
      <3>1. c \in Askers
        BY <1>2, <2>1, ExplorationTypes
      <3>2. CASE i \in DOMAIN instances
        BY <1>3, <2>1, <3>1, <3>2 DEF ExplorationInv, NotYet
      <3>3. CASE i \in New
        BY <1>3, <2>1, <3>3
      <3>. QED BY <3>2, <3>3 DEF New
    <2>2. CASE c \in New
      <3>1. CASE i \in DOMAIN instances
        <4>1. instances[i].for \in Questions \/ instances[i].for \in 1 .. i - 1
          BY <3>1 DEF ExplorationInv, StartedOnce, Exploration!StartedOnce,
                      Exploration!Questions, Questions
        <4>2. instances[i].for \in Questions \/ instances[i].for \in DOMAIN instances
          BY <1>2, <3>1, <4>1
        <4>. QED BY <1>3, <1>5, <2>2, <3>1, <4>2
      <3>2. CASE i \in New
        BY <1>3, <1>5, <2>2, <3>2 DEF Askers
      <3>. QED BY <3>1, <3>2 DEF New
    <2>. QED BY <1>4, <2>1, <2>2
  <1>11. AskedFirst'
    <2>. SUFFICES ASSUME NEW i \in DOMAIN instances', instances'[i].for \in Questions
                  PROVE  asking'[instances'[i].for] # "no"
      BY DEF AskedFirst
    <2>1. CASE i \in DOMAIN instances
      BY <1>1, <1>3, <2>1 DEF ExplorationInv, AskedFirst
    <2>2. CASE i \in New
      BY <1>1, <1>3, <1>8, <2>2
    <2>. QED BY <2>1, <2>2 DEF New
  <1>12. StartedOnce'
    <2>. SUFFICES ASSUME NEW i \in DOMAIN instances'
                  PROVE  /\ \/ /\ instances'[i].for \in Questions
                               /\ instances'[i].what = Asks[instances'[i].for]
                            \/ /\ instances'[i].for \in 1 .. i - 1
                               /\ instances'[i].what
                                      \in ScriptRequires[instances'[instances'[i].for].tactic]
                         /\ \A j \in 1 .. i - 1 :
                                <<instances'[i].tactic, instances'[i].what, instances'[i].for>>
                                    # <<instances'[j].tactic, instances'[j].what, instances'[j].for>>
      BY DEF StartedOnce, Exploration!StartedOnce, Exploration!Questions, Questions
    <2>1. CASE i \in DOMAIN instances
      <3>1. 1 .. i - 1 \subseteq DOMAIN instances
        BY <1>2, <2>1
      <3>. QED BY <1>3, <2>1, <3>1 DEF ExplorationInv, StartedOnce, Exploration!StartedOnce,
                                      Exploration!Questions, Questions
    <2>2. CASE i \in New
      <3>1. \/ instances'[i].for \in Questions /\ instances'[i].what = Asks[instances'[i].for]
            \/ /\ instances'[i].for \in 1 .. i - 1
               /\ instances'[i].what \in ScriptRequires[instances'[instances'[i].for].tactic]
        <4>1. CASE d \in Questions
          BY <1>3, <1>8, <2>2, <4>1
        <4>2. CASE d \in DOMAIN instances
          <5>. d \in 1 .. i - 1
            BY <1>2, <1>5, <1>6, <2>2, <4>2
          <5>. QED BY <1>3, <1>8, <2>2, <4>2
        <4>. QED BY <4>1, <4>2 DEF Askers
      <3>2. ASSUME NEW j \in 1 .. i - 1
            PROVE  <<instances'[i].tactic, instances'[i].what, instances'[i].for>>
                       # <<instances'[j].tactic, instances'[j].what, instances'[j].for>>
        <4>1. j \in DOMAIN instances' /\ j # i
          BY <1>3, <2>2 DEF New
        <4>2. CASE j \in DOMAIN instances
          BY <1>3, <1>8, <2>2, <4>2
        <4>3. CASE j \in New
          BY <1>3, <2>2, <4>1, <4>3
        <4>. QED BY <4>1, <4>2, <4>3 DEF New
      <3>. QED BY <3>1, <3>2
    <2>. QED BY <2>1, <2>2 DEF New
  <1>13. NoneWaitsInVain'
    <2>. SUFFICES ASSUME NEW c \in Askers', NEW x \in Truths, Exploration!WaitsFor(c, x)'
                  PROVE  Helped(c, x)'
      BY NoneWaitsNext
    <2>1. CASE c \in New
      <3>. x \in ScriptRequires[instances'[c].tactic]
        BY <1>5, <2>1 DEF Exploration!WaitsFor, Exploration!Questions, Questions
      <3>. QED BY <1>4, <2>1 DEF Helped
    <2>2. CASE <<x, c>> = <<y, d>>
      <3>1. <<x, c>> \in subscribers'
        BY <1>1, <2>2
      <3>2. \A t \in Providers(x) : \E i \in DOMAIN instances' :
                /\ instances'[i].tactic = t /\ instances'[i].what = x
                /\ instances'[i].for = c /\ instances'[i].stage = "working"
        BY <1>3, <2>2 DEF New
      <3>. QED BY <3>1, <3>2 DEF Helped
    <2>3. CASE c \in Askers /\ <<x, c>> # <<y, d>>
      <3>0. c \in DOMAIN instances' => /\ c \in DOMAIN instances
                                       /\ instances'[c] = instances[c]
        BY <1>3, <1>5, <2>3 DEF Askers, New
      <3>1. Exploration!WaitsFor(c, x)
        BY <1>1, <2>3, <3>0 DEF Exploration!WaitsFor, Exploration!Questions, Questions
      <3>2. /\ <<x, c>> \in needs => <<x, c>> \in needs'
            /\ <<x, c>> \in subscribers => <<x, c>> \in subscribers'
        BY <1>1, <1>4, <2>3
      <3>3. NoneWaitsInVain /\ StillThere(x)
        BY <1>1, <1>3 DEF ExplorationInv, StillThere
      <3>. QED BY <2>3, <3>1, <3>2, <3>3, StillHelped
    <2>. QED BY <1>5, <2>1, <2>2, <2>3
  <1>. QED BY <1>7, <1>9, <1>10, <1>11, <1>12, <1>13 DEF ExplorationInv

\* A truth that is new: all who are subscribed are told, and wait no more.
LEMMA ProvidedStep ==
    ASSUME ExplorationInv, NEW y \in Truths, NEW k \in DOMAIN instances,
           NEW cacheable \in BOOLEAN, Exploration!ReadProvided(y, k, cacheable)
    PROVE  ExplorationInv'
  <1> DEFINE told == Exploration!Subscribed(y)
  <1>1. /\ provided' = provided \ {<<y, k>>}
        /\ Exploration!Tell(told, y)
        /\ subscribers' = {s \in subscribers : s[2] \notin Questions \cap told}
        /\ cache' = IF cacheable THEN cache \cup {y} ELSE cache
        /\ UNCHANGED <<needs, failures>>
    BY DEF Exploration!ReadProvided, Exploration!Without, Exploration!Questions, Questions
  <1>2. \A c \in Askers : c \in told <=> <<y, c>> \in subscribers
    BY DEF Exploration!Subscribed, Exploration!Askers, Exploration!Questions, Askers, Questions
  <1>. HIDE DEF told
  <1>3. Exploration!TypeOK
    BY DEF ExplorationInv
  <1>4. /\ instances' \in Seq(Tactics)
        /\ DOMAIN instances' = DOMAIN instances
        /\ \A i \in DOMAIN instances :
               /\ instances'[i].tactic = instances[i].tactic
               /\ instances'[i].what = instances[i].what
               /\ instances'[i].for = instances[i].for
               /\ instances'[i].stage = instances[i].stage
               /\ instances[i].held \subseteq instances'[i].held
               /\ i \in told /\ instances[i].stage = "working" => y \in instances'[i].held
        /\ asking' \in [Questions -> {"no", "waiting", "answered"}]
        /\ \A q \in Questions : asking'[q] = IF q \in told THEN "answered" ELSE asking[q]
    BY <1>1, <1>3, Told
  <1>5. Askers' = Askers
    BY <1>4 DEF Askers
  <1>6. Exploration!TypeOK'
    <2>. cache' \subseteq Truths
      BY <1>1, <1>3, ExplorationTypes
    <2>. QED BY <1>1, <1>3, <1>4, <1>5, ExplorationTypes, TypesNext
  <1>7. (Sent /\ NotYet /\ AskedFirst /\ StartedOnce)'
    BY <1>1, <1>3, <1>4, NoneStarted, ExplorationTypes DEF ExplorationInv
  <1>8. NoneWaitsInVain'
    <2>. SUFFICES ASSUME NEW c \in Askers, NEW x \in Truths, Exploration!WaitsFor(c, x)'
                  PROVE  Helped(c, x)'
      BY <1>5, NoneWaitsNext
    <2>1. /\ Exploration!WaitsFor(c, x)
          /\ ~ (c \in told /\ x = y)
          /\ ~ (c \in Questions /\ c \in told)
      <3>1. CASE c \in Questions /\ asking'[c] = "waiting" /\ x = Asks[c]
        BY <1>4, <3>1 DEF Exploration!WaitsFor, Exploration!Questions, Questions
      <3>2. CASE /\ c \in DOMAIN instances' /\ instances'[c].stage = "working"
                 /\ x \in ScriptRequires[instances'[c].tactic] \ instances'[c].held
        <4>1. /\ c \in DOMAIN instances /\ instances[c].stage = "working"
              /\ x \in ScriptRequires[instances[c].tactic] \ instances[c].held
              /\ ~ (c \in told /\ x = y)
          BY <1>4, <3>2
        <4>2. c \notin Questions
          BY <1>3, <4>1, ExplorationTypes, ProgramsAssumption DEF Questions
        <4>. QED BY <4>1, <4>2 DEF Exploration!WaitsFor
      <3>. QED BY <3>1, <3>2 DEF Exploration!WaitsFor, Exploration!Questions, Questions
    <2>2. <<x, c>> \in needs => <<x, c>> \in needs'
      BY <1>1
    <2>3. <<x, c>> \in subscribers => <<x, c>> \in subscribers'
      BY <1>1, <2>1
    <2>4. CASE <<x, c>> \notin needs
      <3>1. x # y
        BY <1>2, <2>1, <2>4, NoneWaits DEF ExplorationInv, Helped
      <3>2. \A i \in DOMAIN instances : <<x, i>> \in provided => <<x, i>> \in provided'
        BY <1>1, <3>1
      <3>3. NoneWaitsInVain /\ StillThere(x)
        BY <1>4, <3>2 DEF ExplorationInv, StillThere
      <3>. QED BY <2>1, <2>2, <2>3, <3>3, StillHelped
    <2>. QED BY <2>2, <2>4 DEF Helped
  <1>. QED BY <1>6, <1>7, <1>8 DEF ExplorationInv

\* A Tactic that comes to an end is else what it was.
LEMMA Ended ==
    ASSUME instances \in Seq(Tactics), NEW k \in DOMAIN instances,
           NEW stage \in {"done", "unable", "dead"},
           instances' = [instances EXCEPT ![k].stage = stage]
    PROVE  /\ instances' \in Seq(Tactics)
           /\ DOMAIN instances' = DOMAIN instances
           /\ \A i \in DOMAIN instances :
                  /\ instances'[i].tactic = instances[i].tactic
                  /\ instances'[i].what = instances[i].what
                  /\ instances'[i].for = instances[i].for
                  /\ instances'[i].held = instances[i].held
                  /\ i # k => instances'[i].stage = instances[i].stage
           /\ instances'[k].stage = stage
  <1>1. instances[k] \in Tactics /\ DOMAIN instances = 1 .. Len(instances)
    OBVIOUS
  <1> DEFINE ended == [instances[k] EXCEPT !.stage = stage]
  <1>2. /\ ended \in Tactics /\ ended.stage = stage
        /\ ended.tactic = instances[k].tactic /\ ended.what = instances[k].what
        /\ ended.for = instances[k].for /\ ended.held = instances[k].held
    BY <1>1 DEF Tactics
  <1>3. instances' = [instances EXCEPT ![k] = ended]
    OBVIOUS
  <1>. HIDE DEF ended
  <1>. QED BY <1>1, <1>2, <1>3

\* A script that comes to its end is done only with its truth on its way, and
\* waits for nothing.
LEMMA RecycleStep ==
    ASSUME ExplorationInv, NEW k \in DOMAIN instances, NEW provides \in BOOLEAN,
           Exploration!Recycle(k, provides)
    PROVE  ExplorationInv'
  <1>1. Exploration!TypeOK /\ instances \in Seq(Tactics) /\ instances[k] \in Tactics
    BY ExplorationTypes DEF ExplorationInv
  <1>2. /\ instances' = [instances EXCEPT ![k].stage =
                             IF provides THEN "done" ELSE "unable"]
        /\ provided' = IF provides THEN provided \cup {<<instances[k].what, k>>} ELSE provided
        /\ subscribers' = {s \in subscribers : s[2] \notin {k}}
        /\ UNCHANGED <<cache, needs, asking, failures>>
    BY DEF Exploration!Recycle, Exploration!Without
  <1>3. /\ instances' \in Seq(Tactics)
        /\ DOMAIN instances' = DOMAIN instances
        /\ \A i \in DOMAIN instances :
               /\ instances'[i].tactic = instances[i].tactic
               /\ instances'[i].what = instances[i].what
               /\ instances'[i].for = instances[i].for
               /\ instances'[i].held = instances[i].held
               /\ i # k => instances'[i].stage = instances[i].stage
        /\ instances'[k].stage # "working"
        /\ instances'[k].stage = "done" => <<instances[k].what, k>> \in provided'
    <2> DEFINE stage == IF provides THEN "done" ELSE "unable"
    <2>1. stage \in {"done", "unable"} /\ instances' = [instances EXCEPT ![k].stage = stage]
      BY <1>2
    <2>2. stage = "done" => provides
      OBVIOUS
    <2>. HIDE DEF stage
    <2>. QED BY <1>1, <1>2, <2>1, <2>2, Ended
  <1>4. Askers' = Askers /\ k \notin Questions
    <2>. k \in Nat
      BY <1>1
    <2>. QED BY <1>3, ProgramsAssumption DEF Askers, Questions
  <1>5. Exploration!TypeOK'
    <2>. <<instances[k].what, k>> \in Truths \X DOMAIN instances
      BY <1>1 DEF Tactics
    <2>. provided' \subseteq Truths \X DOMAIN instances'
      BY <1>1, <1>2, <1>3, ExplorationTypes
    <2>. QED BY <1>1, <1>2, <1>3, <1>4, ExplorationTypes, TypesNext
  <1>6. (Sent /\ NotYet /\ AskedFirst /\ StartedOnce)'
    BY <1>1, <1>2, <1>3, NoneStarted, ExplorationTypes DEF ExplorationInv
  <1>7. NoneWaitsInVain'
    <2>. SUFFICES ASSUME NEW c \in Askers, NEW x \in Truths, Exploration!WaitsFor(c, x)'
                  PROVE  Helped(c, x)'
      BY <1>4, NoneWaitsNext
    <2>1. Exploration!WaitsFor(c, x) /\ c # k
      BY <1>2, <1>3, <1>4 DEF Exploration!WaitsFor, Exploration!Questions, Questions
    <2>2. /\ <<x, c>> \in needs => <<x, c>> \in needs'
          /\ <<x, c>> \in subscribers => <<x, c>> \in subscribers'
      BY <1>2, <2>1
    <2>3. \A i \in DOMAIN instances : <<x, i>> \in provided => <<x, i>> \in provided'
      BY <1>2
    <2>4. NoneWaitsInVain /\ StillThere(x)
      BY <1>3, <2>3 DEF ExplorationInv, StillThere
    <2>. QED BY <2>1, <2>2, <2>4, StillHelped
  <1>. QED BY <1>5, <1>6, <1>7 DEF ExplorationInv

\* A script that dies waits for nothing, and is not done.
LEMMA DieStep ==
    ASSUME ExplorationInv, NEW k \in DOMAIN instances, Exploration!Die(k)
    PROVE  ExplorationInv'
  <1>1. Exploration!TypeOK /\ instances \in Seq(Tactics) /\ instances[k] \in Tactics
    BY ExplorationTypes DEF ExplorationInv
  <1>2. /\ instances' = [instances EXCEPT ![k].stage = "dead"]
        /\ failures' \in 0 .. MaxFailures
        /\ UNCHANGED <<cache, subscribers, needs, provided, asking>>
    BY <1>1, ProgramsAssumption, ExplorationTypes DEF Exploration!Die, Exploration!Fault
  <1>3. /\ instances' \in Seq(Tactics)
        /\ DOMAIN instances' = DOMAIN instances
        /\ \A i \in DOMAIN instances :
               /\ instances'[i].tactic = instances[i].tactic
               /\ instances'[i].what = instances[i].what
               /\ instances'[i].for = instances[i].for
               /\ instances'[i].held = instances[i].held
               /\ i # k => instances'[i].stage = instances[i].stage
        /\ instances'[k].stage = "dead"
    BY <1>1, <1>2, Ended
  <1>4. Askers' = Askers
    BY <1>3 DEF Askers
  <1>5. Exploration!TypeOK'
    BY <1>1, <1>2, <1>3, <1>4, ExplorationTypes, TypesNext
  <1>6. (Sent /\ NotYet /\ AskedFirst /\ StartedOnce)'
    BY <1>1, <1>2, <1>3, NoneStarted, ExplorationTypes DEF ExplorationInv
  <1>7. NoneWaitsInVain'
    <2>. SUFFICES ASSUME NEW c \in Askers, NEW x \in Truths, Exploration!WaitsFor(c, x)'
                  PROVE  Helped(c, x)'
      BY <1>4, NoneWaitsNext
    <2>1. Exploration!WaitsFor(c, x)
      BY <1>2, <1>3 DEF Exploration!WaitsFor
    <2>2. NoneWaitsInVain /\ StillThere(x)
      BY <1>2, <1>3 DEF ExplorationInv, StillThere
    <2>. QED BY <1>2, <2>1, <2>2, StillHelped
  <1>. QED BY <1>5, <1>6, <1>7 DEF ExplorationInv

-----------------------------------------------------------------------------
(* The theorems.                                                           *)

LEMMA ExplorationStep ==
    ExplorationInv /\ [Exploration!Next]_Exploration!explorevars => ExplorationInv'
  <1>. SUFFICES ASSUME ExplorationInv, [Exploration!Next]_Exploration!explorevars
                PROVE  ExplorationInv'
    OBVIOUS
  <1>0. /\ needs \subseteq Truths \X Askers
        /\ provided \subseteq Truths \X DOMAIN instances
    BY ExplorationTypes DEF ExplorationInv
  <1>1. ASSUME NEW need \in needs, Exploration!ReadNeed(need[1], need[2])
        PROVE  ExplorationInv'
    <2>. need[1] \in Truths /\ need[2] \in Askers
      BY <1>0
    <2>. QED BY <1>1, AnswerStep, ExploreStep
  <1>2. ASSUME NEW new \in provided, NEW cacheable \in BOOLEAN,
               Exploration!ReadProvided(new[1], new[2], cacheable)
        PROVE  ExplorationInv'
    <2>. new[1] \in Truths /\ new[2] \in DOMAIN instances
      BY <1>0
    <2>. QED BY <1>2, ProvidedStep
  <1>3. ASSUME NEW x \in Truths, Exploration!Expire(x) PROVE ExplorationInv'
    <2>1. /\ cache' \subseteq cache /\ failures' \in 0 .. MaxFailures
          /\ UNCHANGED <<subscribers, needs, provided, asking, instances>>
      BY <1>3, ProgramsAssumption, ExplorationTypes
         DEF Exploration!Expire, Exploration!Fault, ExplorationInv
    <2>2. Exploration!TypeOK'
      BY <2>1, ExplorationTypes, TypesNext DEF ExplorationInv, Askers
    <2>. QED BY <2>1, <2>2 DEF ExplorationInv, Sent, NotYet, AskedFirst, Askers, StartedOnce,
            NoneWaitsInVain, Exploration!StartedOnce, Exploration!NoneWaitsInVain,
            Exploration!WaitsFor, Exploration!Askers
  <1>4. CASE UNCHANGED Exploration!explorevars
    <2>1. UNCHANGED <<cache, subscribers, needs, provided, asking, instances, failures>>
      BY <1>4 DEF Exploration!explorevars
    <2>2. Exploration!TypeOK'
      BY <2>1, ExplorationTypes, TypesNext DEF ExplorationInv, Askers
    <2>. QED BY <2>1, <2>2 DEF ExplorationInv, Sent, NotYet, AskedFirst, Askers, StartedOnce,
            NoneWaitsInVain, Exploration!StartedOnce, Exploration!NoneWaitsInVain,
            Exploration!WaitsFor, Exploration!Askers
  <1>. QED BY <1>1, <1>2, <1>3, <1>4, AskStep, RecycleStep, DieStep
           DEF Exploration!Next, Exploration!Solve, Exploration!Work,
               Exploration!Questions, Questions

LEMMA ExplorationStart == Exploration!Init => ExplorationInv
  <1>. SUFFICES ASSUME Exploration!Init PROVE ExplorationInv
    OBVIOUS
  <1>1. /\ cache = Initial /\ subscribers = {} /\ needs = {} /\ provided = {}
        /\ asking = [q \in Questions |-> "no"]
        /\ instances = <<>> /\ failures = 0
    BY DEF Exploration!Init, Exploration!Questions, Questions
  <1>2. Exploration!TypeOK
    BY <1>1, ProgramsAssumption, ExplorationTypes
  <1>3. Sent /\ NotYet /\ AskedFirst /\ StartedOnce
    BY <1>1 DEF Sent, NotYet, AskedFirst, StartedOnce, Exploration!StartedOnce
  <1>4. NoneWaitsInVain
    BY <1>1 DEF NoneWaitsInVain, Exploration!NoneWaitsInVain, Exploration!WaitsFor,
                Exploration!Questions, Questions
  <1>. QED BY <1>2, <1>3, <1>4 DEF ExplorationInv

LEMMA ExplorationAlways == Exploration!Spec => []ExplorationInv
  BY ExplorationStart, ExplorationStep, PTL DEF Exploration!Spec

\* The variables of the chain of tactics keep to their types.
THEOREM ExplorationTypeCorrect == Exploration!Spec => []Exploration!TypeOK
  BY ExplorationAlways, PTL DEF ExplorationInv

\* Whatever needs, truths, deaths and expiries overtake each other, whoever waits
\* for a truth has its need unread or is subscribed to it, and then each tactic that
\* provides the truth was started for it and works, failed, or has sent the truth
\* (solver.rb, explore_truth_space_for and provide_truth).
THEOREM TruthsReachWhoWaits == Exploration!Spec => []NoneWaitsInVain
  BY ExplorationAlways, PTL DEF ExplorationInv

\* No Tactic is started twice for one need, and each for what a Question asks or
\* an earlier Tactic requires, however many ask for the same truth and whatever
\* expires meanwhile (solver.rb, explore_truth_space_for).
THEOREM TacticsStartedOnce == Exploration!Spec => []StartedOnce
  BY ExplorationAlways, PTL DEF ExplorationInv
=============================================================================
