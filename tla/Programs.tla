------------------------------ MODULE Programs ------------------------------
(***************************************************************************)
(* The programs around the signpost whose correctness is a matter of       *)
(* safety, side by side: the mDNS client, the contact book, the DNS        *)
(* measurement, the links of the routing information, the controller of    *)
(* Frost, and the chain of tactics behind an answer.  They do not talk to  *)
(* each other.  ProgramsMC runs them and others, ProgramsProofs has the    *)
(* theorems.                                                               *)
(***************************************************************************)
EXTENDS Integers, FiniteSets

CONSTANTS
    Instances, MaxResolves,                     \* MdnsClient
    Accounts, Names, Screens, MaxFaults,        \* AddressBook
    Runs, Tests,                                \* DnsMeasurement
    Own, Others, TTLs, Durations, Retry, MaxNews,   \* RoutingLinks
    Hosts, Ports, MaxMoves,                     \* SpController
    Truths, Scripts, ScriptProvides, ScriptRequires, Initial, Asks, MaxFailures
                                                \* TruthExploration

\* What the proofs need of the constants. Tactics are numbered as they start, which
\* tells them from Questions.
ASSUME ProgramsAssumption ==
    /\ Runs \in Nat /\ Tests \in Nat \ {0}
    /\ DOMAIN Asks \cap Nat = {}
    /\ Asks \in [DOMAIN Asks -> Truths] /\ Initial \subseteq Truths
    /\ IsFiniteSet(Scripts)
    /\ ScriptRequires \in [Scripts -> SUBSET Truths]
    /\ MaxFailures \in Nat

VARIABLES
    present, resolving, local_psp, unresolved, late, resolves,
    phase, keyFile, dbFile, tables, users, userIds, adding, halfway, faults, damaged,
    run, main, running, load, test, sent, raised, capture, buffered, trace, early,
    links, expires, evaluating, tried, abandoned, news,
    place, mac_cache, flows, unseen, moves,
    cache, subscribers, needs, provided, asking, instances, failures

Mdns == INSTANCE MdnsClient
Book == INSTANCE AddressBook
Measurement == INSTANCE DnsMeasurement
Links == INSTANCE RoutingLinks
Controller == INSTANCE SpController
Exploration == INSTANCE TruthExploration WITH
    Tactics <- Scripts, Provides <- ScriptProvides, Requires <- ScriptRequires

\* The table of local signposts follows what Avahi says.
TableFollows == Mdns!TableFollows

\* Users and screen names are paired but for those left halfway.
RowsPaired == Book!RowsPaired

\* The trace of a measurement holds its packets and none of another, but for
\* those of a test that raised.
TraceExact == Measurement!TraceExact

\* An own link is evaluated again, unless an evaluation ended without a word.
NeverAbandoned == Links!NeverAbandoned

\* What the controller sends on, or has sent on, reaches the host it is for.
Delivers == Controller!Delivers

\* Who waits for a truth is told it, or every tactic for it is at work or failed.
NoneWaitsInVain == Exploration!NoneWaitsInVain

\* No Tactic is started twice, or for anything that nobody asked for.
StartedOnce == Exploration!StartedOnce
=============================================================================
