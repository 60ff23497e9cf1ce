---------------------------- MODULE RoutingLinks ----------------------------
(***************************************************************************)
(* The links a signpost of the routing information prototype knows         *)
(* (psp/lib/routing_info/info_collector.rb), their lifetimes, and the      *)
(* evaluations by which tactics find and renew its own                     *)
(* (psp/lib/routing_info/tactic.rb).  The nodes it knows are RoutingNodes'. *)
(***************************************************************************)
EXTENDS Integers, Functions, Dictionaries

CONSTANTS
    Own,           \* links from this signpost: a device, a strategy, an interface
    Others,        \* links from other signposts
    TTLs,          \* lifetimes that probers give
    Durations,     \* seconds an evaluation takes
    Retry,         \* seconds before a failed evaluation is tried again
    MaxNews        \* bound on the results of evaluations and the pushes

Keys == Own \cup Others
Times == -1 .. Retry

VARIABLES
    links,         \* the links of the table
    expires,       \* of each entry of link_ttls, the seconds left, -1 when over
    evaluating,    \* how many evaluations of each own link go on
    tried,         \* own links that were evaluated at least once
    abandoned,     \* own links of which an evaluation ended without a word
    news           \* results and pushes so far

linkvars == <<links, expires, evaluating, tried, abandoned, news>>

TypeOK ==
    /\ links \subseteq Keys
    /\ DOMAIN expires \subseteq Keys /\ Range(expires) \subseteq Times
    /\ evaluating \in [Own -> 0 .. MaxNews + 1]
    /\ tried \subseteq Own /\ abandoned \subseteq Own
    /\ news \in 0 .. MaxNews

Init ==
    /\ links = {} /\ expires = <<>> /\ tried = {} /\ abandoned = {} /\ news = 0
    /\ evaluating = [k \in Own |-> 0]

-----------------------------------------------------------------------------
(* CheckQuietly is a faulty variant that breaks the property below.        *)

News == news < MaxNews /\ news' = news + 1

\* What push_link enters in both tables.
Enter(k, time) ==
    /\ links' = links \cup {k}
    /\ expires' = Put(expires, k, IF time < 0 THEN -1 ELSE time)

\* A device that is new is evaluated with every tactic, each time in a thread
\* of its own.
NewDevice(k) ==
    /\ News
    /\ evaluating' = [evaluating EXCEPT ![k] = @ + 1]
    /\ tried' = tried \cup {k}
    /\ UNCHANGED <<links, expires, abandoned>>

\* The prober succeeds: the link is entered to be evaluated again so long before
\* its lifetime is over as this evaluation took, or at once.
Evaluated(k, ttl, duration) ==
    /\ evaluating[k] > 0 /\ News
    /\ evaluating' = [evaluating EXCEPT ![k] = @ - 1]
    /\ Enter(k, ttl - duration - 1)
    /\ UNCHANGED <<tried, abandoned>>

\* The prober says it cannot connect. The link, if there is one, is kept as
\* long as the entry that has it tried again.
Failed(k) ==
    /\ evaluating[k] > 0 /\ News
    /\ evaluating' = [evaluating EXCEPT ![k] = @ - 1]
    /\ expires' = Put(expires, k, Retry)
    /\ UNCHANGED <<links, tried, abandoned>>

\* A prober that takes two minutes is only reported, an interface the tactic
\* does not support is not even that, and a signpost that is not in its own
\* table of nodes does not push its result to itself.
Silent(k) ==
    /\ evaluating[k] > 0
    /\ evaluating' = [evaluating EXCEPT ![k] = @ - 1]
    /\ abandoned' = abandoned \cup {k}
    /\ UNCHANGED <<links, expires, tried, news>>

\* Another signpost pushes a link of its own.
Pushed(k, ttl) ==
    /\ News /\ Enter(k, ttl)
    /\ UNCHANGED <<evaluating, tried, abandoned>>

\* The heartbeat's timer finds the nodes at the other end silent: their links
\* go, even where the node's heartbeat comes in the same timestep.
NodeDead(S) ==
    /\ links' = links \ S
    /\ UNCHANGED <<expires, evaluating, tried, abandoned, news>>

Over == {k \in DOMAIN expires : expires[k] < 0}

CheckFor(again) ==
    /\ Over # {}
    /\ expires' = Restrict(expires, DOMAIN expires \ Over)
    /\ links' = links \ Over
    /\ evaluating' = [k \in Own |-> IF k \in again THEN evaluating[k] + 1 ELSE evaluating[k]]
    /\ UNCHANGED <<tried, abandoned, news>>

CheckQuietly == CheckFor(Over \cap links)

\* ttl_checker: entries that are over go with their links, and those of its own
\* are evaluated again, a link or none.
Check == CheckFor(Over)

Second ==
    /\ expires' = [k \in DOMAIN expires |-> IF expires[k] < 0 THEN -1 ELSE expires[k] - 1]
    /\ UNCHANGED <<links, evaluating, tried, abandoned, news>>

Next ==
    \/ \E k \in Own :
           \/ NewDevice(k) \/ Failed(k) \/ Silent(k)
           \/ \E ttl \in TTLs, duration \in Durations : Evaluated(k, ttl, duration)
    \/ \E k \in Others, ttl \in TTLs : Pushed(k, ttl)
    \/ \E S \in SUBSET Others : NodeDead(S)
    \/ Check \/ Second

Spec == Init /\ [][Next]_linkvars

-----------------------------------------------------------------------------
(* Properties.                                                             *)

\* An own link that was ever evaluated is in link_ttls to be evaluated again or
\* is being evaluated, whatever became of it in the table of links, unless an
\* evaluation ended without a word.
NeverAbandoned ==
    \A k \in tried \ abandoned : k \in DOMAIN expires \/ evaluating[k] > 0
=============================================================================
