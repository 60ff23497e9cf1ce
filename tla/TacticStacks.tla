---------------------------- MODULE TacticStacks ----------------------------
(***************************************************************************)
(* The tactic engine (tactic_engine/stackability.ml, engine.ml): which     *)
(* tactics can be run over which others is worked out beforehand, and two  *)
(* nodes are then connected by every stack that has the properties asked   *)
(* for.  A stack is the list of its tactics, the one run last first.       *)
(***************************************************************************)
EXTENDS Naturals, Sequences, FiniteSets, SequencesExt

CONSTANTS
    Modules,       \* the list of the tactics there are
    Provides,      \* the properties of a channel that each tactic provides
    Properties,    \* authentication, encryption, ...
    Results        \* what kind of addressable each tactic may result in

VARIABLES
    results,       \* the kind that check_stackability and connect return
    required,      \* the properties asked for
    options,       \* possible_connections
    untried,       \* those of them still to be tried
    tactics,       \* what is left to run of the stack being tried
    tunnels,       \* the tactics of it that ran
    addressable    \* the kind of addressable the two nodes have

stackvars == <<results, required, options, untried, tactics, tunnels, addressable>>

Kinds == {"IPAddressInstance", "SRVInstance"}

\* Every tactic there is runs over a pair of IP addresses and raises
\* NonValidAddressables for any other.
Stackable(kind) == kind = "IPAddressInstance"

(* TryAgain and NextLeft are faulty variants that break the property       *)
(* below.                                                                  *)
RECURSIVE TryAgain(_, _, _, _, _, _)
TryAgain(left, used, properties, found, kind, yields) ==
    LET Try(acc, t) ==
            TryAgain(Remove(left, t), <<t>> \o used, properties \cup Provides[t], acc,
                     yields[t], yields)
    IN FoldLeft(Try, <<[tactics |-> used, properties |-> properties]>> \o found,
                SelectSeq(left, LAMBDA t : ~ Provides[t] \subseteq properties))

\* The stack found so far is a result, and so is each that a tactic not yet
\* used makes of it which adds a property and can be stacked.
RECURSIVE TryTactic(_, _, _, _, _, _)
TryTactic(left, used, properties, found, kind, yields) ==
    LET Try(acc, t) ==
            IF Stackable(kind)
            THEN TryTactic(Remove(left, t), <<t>> \o used, properties \cup Provides[t], acc,
                           yields[t], yields)
            ELSE acc
    IN FoldLeft(Try, <<[tactics |-> used, properties |-> properties]>> \o found,
                SelectSeq(left, LAMBDA t : ~ Provides[t] \subseteq properties))

possible_connections(yields) ==
    SelectSeq(TryTactic(Modules, <<>>, {}, <<>>, "IPAddressInstance", yields),
              LAMBDA option : option.tactics # <<>>)

paths_for_req(found, reqs) == SelectSeq(found, LAMBDA option : reqs \subseteq option.properties)

TypeOK ==
    /\ results \in [ToSet(Modules) -> Kinds]
    /\ required \subseteq Properties
    /\ untried \in Seq([tactics : Seq(ToSet(Modules)), properties : SUBSET Properties])
    /\ tactics \in Seq(ToSet(Modules)) /\ tunnels \in Seq(ToSet(Modules))
    /\ addressable \in Kinds

Init ==
    /\ results \in Results
    /\ required \in SUBSET Properties
    /\ options = possible_connections(results)
    /\ untried = paths_for_req(options, required)
    /\ tactics = <<>> /\ tunnels = <<>> /\ addressable = "IPAddressInstance"

-----------------------------------------------------------------------------

\* connect_nodes goes on to the next stack, whether the last was connected or
\* not; both start from the addresses that the nodes had at first.
NextStack ==
    /\ tactics = <<>> /\ untried # <<>>
    /\ tactics' = Head(untried).tactics
    /\ untried' = Tail(untried)
    /\ tunnels' = <<>> /\ addressable' = "IPAddressInstance"
    /\ UNCHANGED <<results, required, options>>

NextLeft ==
    /\ tactics # <<>>
    /\ tactics' = Tail(tactics)
    /\ tunnels' = <<Head(tactics)>> \o tunnels
    /\ addressable' = results[Head(tactics)]
    /\ UNCHANGED <<results, required, options, untried>>

\* The fold from the right: the calls of the tactic at the end succeed, and what
\* it returns is passed on to the one stacked on it.
Connect ==
    /\ tactics # <<>>
    /\ tactics' = Front(tactics)
    /\ tunnels' = <<Last(tactics)>> \o tunnels
    /\ addressable' = results[Last(tactics)]
    /\ UNCHANGED <<results, required, options, untried>>

\* A call fails or times out: TacticFailed ends this stack. The tunnels set up
\* for it are left.
Fail ==
    /\ tactics # <<>>
    /\ tactics' = <<>> /\ tunnels' = <<>>
    /\ UNCHANGED <<results, required, options, untried, addressable>>

Next == NextStack \/ Connect \/ Fail

Spec == Init /\ [][Next]_stackvars

-----------------------------------------------------------------------------
(* Properties.                                                             *)

\* What the search should find: the ways to run tactics over each other, none
\* twice, each over addresses that it accepts and for a property that those
\* below it lack.
Stacks ==
    {s \in UNION {[1 .. n -> ToSet(Modules)] : n \in 1 .. Len(Modules)} :
        /\ IsInjective(s)
        /\ \A i \in 1 .. Len(s) - 1 : Stackable(results[s[i + 1]])
        /\ \A i \in 1 .. Len(s) :
               \E p \in Provides[s[i]] : \A j \in i + 1 .. Len(s) : p \notin Provides[s[j]]}

\* The recursive search with its accumulated list finds every stack there is,
\* each exactly once, with the properties of its tactics; and the order in which
\* a stack is connected is that in which it was found to be possible: no tactic
\* is handed addressables it would have refused, and what is connected in the
\* end provides what was asked for.
StacksSound ==
    /\ ToSet(options) = {[tactics |-> s, properties |-> UNION {Provides[t] : t \in ToSet(s)}] :
                            s \in Stacks}
    /\ IsInjective(options)
    /\ tactics # <<>> => Stackable(addressable)
    /\ tactics = <<>> /\ tunnels # <<>> =>
           required \subseteq UNION {Provides[t] : t \in ToSet(tunnels)}
=============================================================================
