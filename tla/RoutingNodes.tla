---------------------------- MODULE RoutingNodes ----------------------------
(***************************************************************************)
(* How the signposts of the routing information prototype                  *)
(* (psp/lib/routing_info/info_collector.rb) find each other: a signpost    *)
(* connects to the server, is told of the others and connects to each, and *)
(* a heartbeat every second keeps it in their tables of nodes.  Bud's      *)
(* channels are UDP: what is sent arrives within the second, in any order,  *)
(* or is lost.                                                             *)
(***************************************************************************)
EXTENDS Naturals, FiniteSets, Functions, TLC

CONSTANTS
    Nodes,
    Server,        \* the node that runs the server
    MaxLost        \* bound on the messages lost and the nodes that stop

Dead == 3          \* seconds without a heartbeat that remove a node

VARIABLES
    up,        \* the nodes that run
    nodes,     \* of each node: seconds since it heard of each node it knows
    wire,      \* connect and node_discovery messages: kind, sender, receiver, subject
    beaten,    \* the nodes whose timer fired in this second
    lost,      \* messages lost and nodes stopped so far
    whole      \* no message was lost or overtaken, the server was there, and no
               \* table dropped a node that runs

nodevars == <<up, nodes, wire, beaten, lost, whole>>

TypeOK ==
    /\ up \subseteq Nodes
    /\ DOMAIN nodes = Nodes
    /\ \A n \in Nodes : DOMAIN nodes[n] \subseteq Nodes /\ Range(nodes[n]) \subseteq 0 .. Dead
    /\ wire \subseteq {"connect", "discovery"} \X Nodes \X Nodes \X Nodes
    /\ beaten \subseteq Nodes
    /\ lost \in 0 .. MaxLost
    /\ whole \in BOOLEAN

Init ==
    /\ up = {} /\ wire = {} /\ beaten = {} /\ lost = 0 /\ whole = TRUE
    /\ nodes = [n \in Nodes |-> <<>>]

Knows(n, m) == m \in DOMAIN nodes[n]

\* The tables when every node of S has just heard of m.
Heard(S, m) == [n \in Nodes |-> IF n \in S THEN (m :> 0) @@ nodes[n] ELSE nodes[n]]

-----------------------------------------------------------------------------
(* BeatAll and ReadAlone are faulty variants: each breaks a property       *)
(* checked below.                                                          *)

\* bootstrap: the server enters itself, the others connect to it, once.
Start(n) ==
    /\ n \notin up
    /\ up' = up \cup {n} /\ beaten' = beaten \cup {n}
    /\ IF n = Server THEN nodes' = Heard({n}, n) /\ UNCHANGED wire
       ELSE wire' = wire \cup {<<"connect", n, Server, n>>} /\ UNCHANGED nodes
    /\ whole' = (whole /\ (n = Server \/ Server \in up))
    /\ UNCHANGED lost

Alive(n) == Restrict(nodes[n], {m \in DOMAIN nodes[n] : nodes[n][m] < Dead})

BeatLeaving(n, left) ==
    /\ n \in up \ beaten /\ beaten' = beaten \cup {n}
    /\ \E got \in SUBSET DOMAIN nodes[n] :
           /\ lost' = lost + Cardinality(DOMAIN nodes[n] \ got) /\ lost' <= MaxLost
           /\ whole' = (/\ whole /\ got = DOMAIN nodes[n]
                        /\ \A message \in wire : message[2] # n
                        /\ \A m \in up \cap DOMAIN nodes[n] : nodes[n][m] < Dead)
           /\ nodes' = [Heard(got \cap up, n) EXCEPT ![n] =
                            IF n \in got THEN (n :> 0) @@ left ELSE left]
    /\ UNCHANGED <<up, wire>>

BeatAll(n) == BeatLeaving(n, nodes[n])

\* The timer: a heartbeat to every node of the table, the dead ones that the
\* timer removes included. Who receives it enters its sender, known or not.
Beat(n) == BeatLeaving(n, Alive(n))

Callers(n) == {m \in Nodes : <<"connect", m, n, m>> \in wire}
News(n) == {m \in Nodes \ DOMAIN nodes[n] : \E k \in Nodes : <<"discovery", k, n, m>> \in wire}

ReadFor(n, told) ==
    LET read == {message \in wire : message[3] = n} IN
    /\ read # {}
    /\ IF n \in up
       THEN /\ nodes' = [nodes EXCEPT ![n] = @ @@ [m \in Callers(n) \cup News(n) |-> 0]]
            /\ wire' = (wire \ read)
                   \cup {<<"discovery", n, m, k>> : m \in Callers(n), k \in told}
                   \cup {<<"connect", n, m, n>> : m \in News(n)}
       ELSE wire' = wire \ read /\ UNCHANGED nodes
    /\ UNCHANGED <<up, beaten, lost, whole>>

ReadAlone(n) == ReadFor(n, {})

\* A timestep reads what arrived. Who connects is told of every node that was
\* known before, not of the others that connect with it; a node it is told of
\* and does not know, itself perhaps, is connected to. Both are entered when the
\* timestep ends.
Read(n) == ReadFor(n, DOMAIN nodes[n])

Lose(message) ==
    /\ message \in wire /\ lost < MaxLost
    /\ wire' = wire \ {message}
    /\ lost' = lost + 1 /\ whole' = FALSE
    /\ UNCHANGED <<up, nodes, beaten>>

\* A signpost ends, and may be started again with empty tables.
Stop(n) ==
    /\ n \in up /\ lost < MaxLost
    /\ up' = up \ {n} /\ beaten' = beaten \ {n}
    /\ nodes' = [nodes EXCEPT ![n] = <<>>]
    /\ lost' = lost + 1 /\ whole' = (whole /\ n # Server)
    /\ UNCHANGED wire

\* A second goes by: every timer has fired in it and nothing is on its way.
Second ==
    /\ wire = {} /\ beaten = up /\ up # {}
    /\ beaten' = {}
    /\ nodes' = [n \in Nodes |-> [m \in DOMAIN nodes[n] |->
                     IF nodes[n][m] < Dead THEN nodes[n][m] + 1 ELSE Dead]]
    /\ UNCHANGED <<up, wire, lost, whole>>

Goes == Second \/ \E n \in Nodes : Beat(n) \/ Read(n)

Next ==
    \/ Goes
    \/ \E n \in Nodes : Start(n) \/ Stop(n)
    \/ \E message \in wire : Lose(message)

Spec == Init /\ [][Next]_nodevars

\* Timers fire, and what is sent is read.
Fairness == WF_nodevars(Goes)

FairSpec == Spec /\ Fairness

-----------------------------------------------------------------------------
(* Properties.                                                             *)

\* The graph of signposts comes to be fully connected, as it is meant to be,
\* in whichever order they start, connect and are told of each other, while no
\* message is lost, none is overtaken by a heartbeat that makes it news of a
\* node already known, and the server runs. A signpost that starts again in
\* the seconds before the server drops it breaks this: its connect does not
\* renew its entry, and who connects between the server's timer and its first
\* heartbeat is never told of it.
FullGraph == <>[](whole => \A n, m \in up : n = m \/ Knows(n, m))

\* A signpost that stopped leaves all the tables, although signposts that know
\* it still tell it to others.
Forgets == <>[](\A n \in up : DOMAIN nodes[n] \subseteq up)
=============================================================================
