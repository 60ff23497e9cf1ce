-------------------------- MODULE FrostSignalling ---------------------------
(***************************************************************************)
(* The signalling of Frost (frost/client.ml, signal.ml, nodes.ml): every   *)
(* client says hello to the server in a datagram every two seconds, with   *)
(* the address it was started with, and the server answers DNS queries for *)
(* the client from the hello it read last.                                 *)
(***************************************************************************)
EXTENDS Naturals, FiniteSets, Functions, TLC

CONSTANTS
    Clients,       \* node names
    Addresses,     \* what a client can be started with as its IP and port
    MaxTroubles    \* bound on restarts, failures and lost datagrams

VARIABLES
    clients,       \* the clients that run, with their node_ip and node_port
    hellos,        \* the hellos on their way
    signalling,    \* the signalling_channel of the server's nodes
    troubles       \* restarts, failures and losses so far

frostvars == <<clients, hellos, signalling, troubles>>

TypeOK ==
    /\ DOMAIN clients \subseteq Clients /\ Range(clients) \subseteq Addresses
    /\ hellos \subseteq Clients \X Addresses
    /\ DOMAIN signalling \subseteq Clients /\ Range(signalling) \subseteq Addresses
    /\ troubles \in 0 .. MaxTroubles

Init == clients = <<>> /\ hellos = {} /\ signalling = <<>> /\ troubles = 0

-----------------------------------------------------------------------------

Trouble == troubles < MaxTroubles /\ troubles' = troubles + 1

Start(n, address) ==
    /\ n \notin DOMAIN clients
    /\ clients' = (n :> address) @@ clients
    /\ UNCHANGED <<hellos, signalling, troubles>>

\* client_t, every two seconds.
Hello(n) ==
    /\ n \in DOMAIN clients
    /\ hellos' = hellos \cup {<<n, clients[n]>>}
    /\ UNCHANGED <<clients, signalling, troubles>>

(* UpdateNew is a faulty variant that breaks the property checked below.   *)
UpdateNew(n, address) == signalling @@ (n :> address)

update_sig_channel(n, address) == (n :> address) @@ signalling

\* handle_rpc of the server, for datagrams in whichever order they arrive.
Handle(hello) ==
    /\ hello \in hellos
    /\ hellos' = hellos \ {hello}
    /\ signalling' = update_sig_channel(hello[1], hello[2])
    /\ UNCHANGED <<clients, troubles>>

Lose(hello) ==
    /\ hello \in hellos /\ Trouble
    /\ hellos' = hellos \ {hello}
    /\ UNCHANGED <<clients, signalling>>

\* A client is stopped, or the first sendto that raises ends it.
Stop(n) ==
    /\ n \in DOMAIN clients /\ Trouble
    /\ clients' = Restrict(clients, DOMAIN clients \ {n})
    /\ UNCHANGED <<hellos, signalling>>

\* The table is gone when the server is started again.
Restart ==
    /\ Trouble
    /\ signalling' = <<>>
    /\ UNCHANGED <<clients, hellos>>

Next ==
    \/ \E n \in Clients : Hello(n) \/ Stop(n) \/ (\E address \in Addresses : Start(n, address))
    \/ \E hello \in hellos : Handle(hello) \/ Lose(hello)
    \/ Restart

Spec == Init /\ [][Next]_frostvars

\* Every client's timer keeps firing, and no datagram is under way for ever.
Fairness ==
    /\ \A n \in Clients : WF_frostvars(Hello(n))
    /\ \A n \in Clients, address \in Addresses : WF_frostvars(Handle(<<n, address>>))

FairSpec == Spec /\ Fairness

-----------------------------------------------------------------------------
(* Properties.                                                             *)

\* Although hellos are lost and overtake each other, clients are started with
\* other addresses and the server forgets them, the server comes to answer for
\* every client with the address it was started with. It answers for those that
\* ended as well.
Settles ==
    <>[](\A n \in DOMAIN clients : n \in DOMAIN signalling /\ signalling[n] = clients[n])
=============================================================================
