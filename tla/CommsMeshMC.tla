----------------------------- MODULE CommsMeshMC -----------------------------
(***************************************************************************)
(* Instances of CommsMesh: the domain's signpost and two others, on one    *)
(* host with a port each, where one thing goes wrong; or the third on a    *)
(* host of its own, with a port of its own or the second one's.            *)
(***************************************************************************)
EXTENDS CommsMesh

CONSTANTS a, b, c

OwnPort == [n \in Nodes |-> n]
OneHost == [host |-> [n \in Nodes |-> a], port |-> OwnPort, faults |-> 1]
Apart == [host |-> [n \in Nodes |-> IF n = c THEN c ELSE a], port |-> OwnPort, faults |-> 0]
SamePort == [Apart EXCEPT !.port[c] = b]
Hosts == {OneHost, Apart, SamePort}
=============================================================================
