---------------------------- MODULE SpController ----------------------------
(***************************************************************************)
(* The OpenFlow controller of Frost (frost/sp_controller.ml) with one      *)
(* switch: it learns the port of each address from the packets that the    *)
(* switch has no flow for, and installs a flow once it knows where a       *)
(* packet goes.                                                            *)
(***************************************************************************)
EXTENDS Naturals, Functions, Dictionaries

CONSTANTS
    Hosts,        \* hosts, and their Ethernet addresses
    Ports,        \* the ports of the switch
    MaxMoves      \* bound on the moves of hosts to another port

VARIABLES
    place,        \* the port each host is at
    mac_cache,    \* the port last seen for an address
    flows,        \* the flows of the switch: where packets from a port, with
                  \* the two addresses, go
    unseen,       \* the hosts of which no packet reached the controller since
                  \* they moved
    moves         \* moves so far

controllervars == <<place, mac_cache, flows, unseen, moves>>

Flow == [in_port : Ports, src : Hosts, dst : Hosts, out : Ports]

TypeOK ==
    /\ place \in [Hosts -> Ports] /\ IsInjective(place)
    /\ DOMAIN mac_cache \subseteq Hosts /\ Range(mac_cache) \subseteq Ports
    /\ flows \subseteq Flow
    /\ unseen \subseteq Hosts /\ moves \in 0 .. MaxMoves

Init ==
    /\ place \in {p \in [Hosts -> Ports] : IsInjective(p)}
    /\ mac_cache = <<>> /\ flows = {}
    /\ unseen = {} /\ moves = 0

-----------------------------------------------------------------------------

\* The switch sends a packet it has a flow for without asking the controller.
Matching(h, dst) == {f \in flows : f.in_port = place[h] /\ f.src = h /\ f.dst = dst}

(* LearnFirst and OutputBack are faulty variants: each breaks a property   *)
(* checked below.                                                          *)
LearnFirst(h) ==
    IF h \in DOMAIN mac_cache THEN mac_cache ELSE Put(mac_cache, h, place[h])

\* add_entry_in_hashtbl replaces what was known of the address.
add_entry_in_hashtbl(h) == Put(mac_cache, h, place[h])

OutputBack(known, h, dst) == IF dst \in DOMAIN known THEN {known[h]} ELSE Ports \ {place[h]}

Output(known, h, dst) == IF dst \in DOMAIN known THEN {known[dst]} ELSE Ports \ {place[h]}

\* packet_in_cb: the source is learned; the packet then goes to every port but
\* its own if its destination is not known, or else is sent on together with a
\* flow for those that follow.
packet_in_cb(h, dst) ==
    LET known == add_entry_in_hashtbl(h)
        ports == Output(known, h, dst)
    IN
    /\ Matching(h, dst) = {}
    /\ mac_cache' = known
    /\ unseen' = unseen \ {h}
    /\ flows' = IF dst \notin DOMAIN known THEN flows
                ELSE flows \cup {[in_port |-> place[h], src |-> h, dst |-> dst, out |-> out] :
                                     out \in ports}
    /\ UNCHANGED <<place, moves>>

\* The switch drops a flow.
Expire(f) ==
    /\ f \in flows
    /\ flows' = flows \ {f}
    /\ UNCHANGED <<place, mac_cache, unseen, moves>>

Move(h, to) ==
    /\ moves < MaxMoves /\ moves' = moves + 1
    /\ to \notin Range(place)
    /\ place' = [place EXCEPT ![h] = to]
    /\ unseen' = unseen \cup {h}
    /\ UNCHANGED <<mac_cache, flows>>

Next ==
    \/ \E h \in Hosts : \E dst \in Hosts \ {h} : packet_in_cb(h, dst)
    \/ \E f \in flows : Expire(f)
    \/ \E h \in Hosts, to \in Ports : Move(h, to)

Spec == Init /\ [][Next]_controllervars

-----------------------------------------------------------------------------
(* Properties.                                                             *)

\* A packet that the controller handles reaches the host it is for, unless that
\* host has moved and not been seen again, and so do those that follow by the
\* flow it installs, until the host moves.
Delivers ==
    /\ [](\A h, dst \in Hosts : h # dst /\ dst \notin unseen =>
              place[dst] \in Output(add_entry_in_hashtbl(h), h, dst))
    /\ [][\A f \in flows' \ flows : f.dst \notin unseen => f.out = place[f.dst]]_controllervars
=============================================================================
