----------------------------- MODULE ProgramsMC -----------------------------
(***************************************************************************)
(* The programs around the signpost that do not talk to each other, each   *)
(* checked by itself in one run: a behaviour is one of one program, while  *)
(* the variables of the others keep their initial values.  Programs has    *)
(* those of which theorems are proved.                                     *)
(***************************************************************************)
EXTENDS SolvingServer, Programs, TLC

CONSTANTS
    Services, MaxChanges, Nodes, Server, MaxLost, Clients, Addresses, MaxTroubles,
    Modules, Provides, Properties, Results, http, dns

VARIABLES
    program,
    listening, service_cache, timer, changes,
    up, nodes, wire, beaten, lost, whole,
    clients, hellos, signalling, troubles,
    results, required, options, untried, tactics, tunnels, addressable

Discovery == INSTANCE ServiceDiscovery
Routing == INSTANCE RoutingNodes
Frost == INSTANCE FrostSignalling
Engine == INSTANCE TacticStacks

MCOn == [r \in Requests |-> CHOOSE c \in Connections : TRUE]

\* The three tactics there are, and what else they might have to result in for
\* one to be run over another.
MCModules == <<"iodine", "openvpn", "tor">>
MCProvides ==
    [iodine |-> {"authentication", "bidirectional"},
     openvpn |-> {"authentication", "bidirectional", "encryption", "compression"},
     tor |-> {"anonymity", "bidirectional"}]
MCProperties == {"authentication", "encryption", "anonymity", "compression", "bidirectional"}
MCResults == [{"iodine", "openvpn", "tor"} -> {"IPAddressInstance", "SRVInstance"}]

\* Tactics of psp/tactics as their config.yml has them. Two can make an address
\* connectable, and what the first requires is asked for by itself, too.
MCScriptProvides ==
    [iodine |-> {"connectable_ip"}, openvpn |-> {"connectable_ip"},
     shared_secret |-> {"shared_secret"}]
MCScriptRequires ==
    [iodine |-> {"shared_secret", "local_signpost_domain"}, openvpn |-> {},
     shared_secret |-> {"local_signpost_domain"}]
MCAsks == (http :> "connectable_ip") @@ (dns :> "shared_secret")

\* The initial values of a program that does not run.
MCPlace == CHOOSE p \in [Hosts -> Ports] : Controller!IsInjective(p)
MCResult == CHOOSE r \in Results : TRUE

AllInit ==
    /\ program \in {"server", "discovery", "mdns", "book", "measurement", "routing", "links",
                   "controller", "frost", "engine", "exploration"}
    /\ IF program = "controller" THEN TRUE ELSE place = MCPlace
    /\ IF program = "engine" THEN TRUE ELSE results = MCResult /\ required = {}
    /\ Init /\ Discovery!Init /\ Mdns!Init /\ Book!Init /\ Measurement!Init
    /\ Routing!Init /\ Links!Init /\ Controller!Init /\ Frost!Init /\ Engine!Init
    /\ Exploration!Init
    /\ program # "discovery" => listening = {}

discovery == <<listening, service_cache, timer, changes>>
mdns == <<present, resolving, local_psp, unresolved, late, resolves>>
book == <<phase, keyFile, dbFile, tables, users, userIds, adding, halfway, faults, damaged>>
measurement == <<run, main, running, load, test, sent, raised, capture, buffered, trace, early>>
routing == <<up, nodes, wire, beaten, lost, whole>>
linkvars == <<links, expires, evaluating, tried, abandoned, news>>
controller == <<place, mac_cache, flows, unseen, moves>>
frost == <<clients, hellos, signalling, troubles>>
engine == <<results, required, options, untried, tactics, tunnels, addressable>>
exploration == <<cache, subscribers, needs, provided, asking, instances, failures>>

AllNext ==
    /\ IF program = "server" THEN Next ELSE UNCHANGED vars
    /\ IF program = "discovery" THEN Discovery!Next ELSE UNCHANGED discovery
    /\ IF program = "mdns" THEN Mdns!Next ELSE UNCHANGED mdns
    /\ IF program = "book" THEN Book!Next ELSE UNCHANGED book
    /\ IF program = "measurement" THEN Measurement!Next ELSE UNCHANGED measurement
    /\ IF program = "routing" THEN Routing!Next ELSE UNCHANGED routing
    /\ IF program = "links" THEN Links!Next ELSE UNCHANGED linkvars
    /\ IF program = "controller" THEN Controller!Next ELSE UNCHANGED controller
    /\ IF program = "frost" THEN Frost!Next ELSE UNCHANGED frost
    /\ IF program = "engine" THEN Engine!Next ELSE UNCHANGED engine
    /\ IF program = "exploration" THEN Exploration!Next ELSE UNCHANGED exploration
    /\ UNCHANGED program

allvars == <<program, vars, discovery, mdns, book, measurement, routing, linkvars,
             controller, frost, engine, exploration>>

\* The fairness of the program that runs.
AllFairness ==
    \/ program = "server" /\ Fairness
    \/ program = "discovery" /\ Discovery!Fairness
    \/ program \in {"mdns", "measurement", "links", "controller", "engine"}
    \/ program = "frost" /\ Frost!Fairness
    \/ program = "book" /\ Book!Fairness
    \/ program = "routing" /\ Routing!Fairness
    \/ program = "exploration" /\ Exploration!Fairness

AllSpec == AllInit /\ [][AllNext]_allvars /\ AllFairness

-----------------------------------------------------------------------------
(* The properties of each program, where it is the one that runs: those in *)
(* Programs, and these.                                                    *)

\* The variables of every program keep to their types.
AllTypeOK ==
    /\ TypeOK /\ Discovery!TypeOK /\ Mdns!TypeOK /\ Book!TypeOK /\ Measurement!TypeOK
    /\ Routing!TypeOK /\ Links!TypeOK /\ Controller!TypeOK /\ Frost!TypeOK /\ Engine!TypeOK
    /\ Exploration!TypeOK

\* The list of services comes to hold each open socket once.
Converges == Discovery!Converges

\* A program with a token becomes ready with its database, unless a fault has
\* left that without tables, which nothing repairs.
Recovers == Book!Recovers

\* The graph of signposts comes to be fully connected.
FullGraph == Routing!FullGraph

\* A signpost that stopped leaves every table.
Forgets == Routing!Forgets

\* The server of Frost comes to know the address of each client.
Settles == Frost!Settles

\* The engine finds every stack of tactics once and connects it in its order.
StacksSound == Engine!StacksSound

\* Every tactic that c's need of x started gave up, died, or waits for a truth
\* that it will not be given for the same reason. A truth that no tactic
\* provides is given up at once.
RECURSIVE GivenUp(_, _)
GivenUp(x, c) ==
    \A t \in Exploration!Providers(x) : \E i \in DOMAIN instances :
        /\ instances[i].tactic = t /\ instances[i].what = x /\ instances[i].for = c
        /\ \/ instances[i].stage \in {"unable", "dead"}
           \/ /\ instances[i].stage = "working"
              /\ \E y \in ScriptRequires[t] \ instances[i].held : GivenUp(y, i)

\* A Question is answered if one chain of tactics for it comes to a truth,
\* however many give up, die or wait for ever beside it, whoever else asked for the
\* same truths, whatever of it was cached and expired meanwhile.
ChainsAnswered ==
    \A q \in DOMAIN Asks : <>[](asking[q] = "waiting" => GivenUp(Asks[q], q))
=============================================================================
