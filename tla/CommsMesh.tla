------------------------------ MODULE CommsMesh ------------------------------
(***************************************************************************)
(* How the signposts of a domain find each other: the channels of          *)
(* psp/lib/tactic_solver/comms_agent.rb from connect to unbind. A signpost *)
(* looks one signpost up in the DNS, connects, and asks each signpost it   *)
(* is connected to for others. What channels carry otherwise is in Gossip. *)
(***************************************************************************)
EXTENDS Naturals, Sequences, FiniteSets

CONSTANTS
    Nodes,       \* the signposts
    Listed,      \* the signposts the DNS lists for the domain
    Home,        \* the signpost whose address connectable_ip gives for the domain
    Deployments, \* where the signposts may run: a host and a port for each, and
                 \* the faults that happen there, connections that break or are
                 \* refused and lines that are split, each of which is
                 \* counted as a connection too
    None,        \* nil; also what a lookup in the DNS has for its target
    MaxConns     \* bound on the connections that exist at a time

ASSUME MeshAssumption ==
    /\ Listed \subseteq Nodes /\ Home \in Nodes /\ None \notin Nodes
    /\ MaxConns \in Nat
    /\ \A d \in Deployments :
           /\ DOMAIN d.host = Nodes /\ DOMAIN d.port = Nodes /\ d.faults \in Nat
           /\ \A m, n \in Nodes :
                  d.host[m] = d.host[n] /\ d.port[m] = d.port[n] => m = n

VARIABLES
    deployment, \* where the signposts run
    conn,       \* the TCP connections, each in a slot
    channels,   \* each signpost's @_channels: ends of connections
    seeking,    \* each signpost's Questions on the way to a connection
    faults      \* how many faults there were

mesh == <<conn, channels, seeking, faults>>
vars == <<deployment, mesh>>

Sides == {"client", "server"}
Slots == 1 .. MaxConns
Targets == Nodes \cup {None}

Line == [kind : {"hi_i_am", "nice_to_meet_you_i_am", "list_of_signposts", "signposts"},
         names : SUBSET Nodes]
Hi == [kind |-> "hi_i_am", names |-> {}]
Nice == [kind |-> "nice_to_meet_you_i_am", names |-> {}]
List == [kind |-> "list_of_signposts", names |-> {}]
Signposts(S) == [kind |-> "signposts", names |-> S]

\* at: the signpost of each end; open: unbind has not been called there;
\* name: @_name there; inbox: lines under way to it.
Connection ==
    [at : [Sides -> Nodes], up : BOOLEAN, open : [Sides -> BOOLEAN],
     name : [Sides -> Targets], inbox : [Sides -> Seq(Line)]]

Free == [up |-> FALSE]

TypeOK ==
    /\ conn \in [Slots -> Connection \cup {Free}]
    /\ channels \in [Nodes -> SUBSET (Slots \X Sides)]
    /\ seeking \in [Nodes -> [Targets -> Nat]]
    /\ faults \in 0 .. deployment.faults
    /\ deployment \in Deployments

\* A signpost that is not the domain's looks for one as it starts.
Init ==
    /\ conn = [k \in Slots |-> Free]
    /\ channels = [n \in Nodes |-> {}]
    /\ seeking = [n \in Nodes |-> [s \in Targets |->
                     IF s = None /\ n # Home THEN 1 ELSE 0]]
    /\ faults = 0
    /\ deployment \in Deployments

Used == {k \in Slots : conn[k] # Free}
Other(side) == IF side = "client" THEN "server" ELSE "client"
NameOf(e) == conn[e[1]].name[e[2]]
Names(n) == {NameOf(e) : e \in channels[n]}

\* A line sent on a connection that is gone is lost.
Sent(c, side, lines) ==
    IF c.up THEN [c EXCEPT !.inbox[side] = @ \o lines] ELSE c

Fault == faults < deployment.faults /\ faults' = faults + 1

Lookup(n) == [seeking EXCEPT ![n][None] = @ + 1]

-----------------------------------------------------------------------------
(* Finding and connecting. UnbindKeepsChannel, NewChannelSilent and        *)
(* AnswersDropped are faulty variants: each breaks a property below.       *)

AnswersDropped(n, s) ==
    /\ seeking[n][None] > 0
    /\ s \in Listed
    /\ seeking' = [seeking EXCEPT ![n][None] = 0]
    /\ UNCHANGED <<conn, channels, faults>>

\* find_signpost_from_dns comes to its answer, the first signpost listed; a
\* signpost does not connect to its own name.
DnsAnswers(n, s) ==
    /\ seeking[n][None] > 0
    /\ s \in Listed
    /\ seeking' = [seeking EXCEPT ![n][None] = @ - 1,
                                  ![n][s] = IF s = n THEN @ ELSE @ + 1]
    /\ UNCHANGED <<conn, channels, faults>>

\* connect_to_signpost asks for the address of the domain, whatever signpost
\* it was given, and connects to that signpost's port there.
Reached(s) ==
    {m \in Nodes : /\ deployment.host[m] = deployment.host[Home]
                   /\ deployment.port[m] = deployment.port[s]}

Connect(n, s) ==
    \E m \in Reached(s), k \in Slots \ Used :
        /\ seeking[n][s] > 0
        /\ Cardinality(Used) + faults < MaxConns
        /\ \A j \in Slots \ Used : k <= j
        /\ seeking' = [seeking EXCEPT ![n][s] = @ - 1]
        /\ conn' = [conn EXCEPT ![k] =
               [at |-> [side \in Sides |-> IF side = "client" THEN n ELSE m],
                up |-> TRUE, open |-> [side \in Sides |-> TRUE],
                name |-> [side \in Sides |-> None],
                inbox |-> [side \in Sides |-> IF side = "server" THEN <<Hi>> ELSE <<>>]]]
        /\ UNCHANGED <<channels, faults>>

\* A refused connection is unbound without a name.
ConnectFails(n, s) ==
    /\ seeking[n][s] > 0 /\ s # None
    /\ \/ Reached(s) = {} /\ UNCHANGED faults
       \/ Reached(s) # {} /\ Fault
    /\ seeking' = [IF channels[n] = {} THEN Lookup(n) ELSE seeking
                   EXCEPT ![n][s] = @ - 1]
    /\ UNCHANGED <<conn, channels>>

-----------------------------------------------------------------------------
(* CommsChannel.receive_data at one end of connection k.                   *)

Hears(k, side, kind) ==
    /\ k \in Used
    /\ conn[k].open[side] /\ conn[k].inbox[side] # <<>>
    /\ Head(conn[k].inbox[side]).kind = kind

Read(k, side) == [conn[k] EXCEPT !.inbox[side] = Tail(@)]

Meets(k, side) == [Read(k, side) EXCEPT !.name[side] = conn[k].at[Other(side)]]

NewChannelSilent(k, side, greeting) ==
    /\ conn' = [conn EXCEPT ![k] = Sent(Meets(k, side), Other(side), greeting)]
    /\ channels' = [channels EXCEPT ![conn[k].at[side]] = @ \cup {<<k, side>>}]

\* new_channel. A signpost that has connected to itself terminates the channel
\* at both ends, and channel_closed does not act on it.
NewChannel(k, side, greeting) ==
    IF conn[k].at["client"] = conn[k].at["server"]
    THEN conn' = [conn EXCEPT ![k] = Free] /\ UNCHANGED channels
    ELSE /\ conn' = [conn EXCEPT ![k] =
                Sent(Meets(k, side), Other(side), Append(greeting, List))]
         /\ channels' = [channels EXCEPT ![conn[k].at[side]] = @ \cup {<<k, side>>}]

HearHi(k) ==
    /\ Hears(k, "server", "hi_i_am")
    /\ NewChannel(k, "server", <<Nice>>)
    /\ UNCHANGED <<seeking, faults>>

HearNice(k) ==
    /\ Hears(k, "client", "nice_to_meet_you_i_am")
    /\ NewChannel(k, "client", <<>>)
    /\ UNCHANGED <<seeking, faults>>

\* perform_action_for_remote_signpost answers with the names of all channels.
HearList(k, side) ==
    /\ Hears(k, side, "list_of_signposts")
    /\ conn' = [conn EXCEPT ![k] =
           Sent(Read(k, side), Other(side), <<Signposts(Names(conn[k].at[side]))>>)]
    /\ UNCHANGED <<channels, seeking, faults>>

\* connect_to_signposts, for those without a channel. What is being connected
\* to already is not looked at.
HearSignposts(k, side) ==
    LET n == conn[k].at[side]
        unknown == Head(conn[k].inbox[side]).names \ (Names(n) \cup {n})
    IN /\ Hears(k, side, "signposts")
       /\ conn' = [conn EXCEPT ![k] = Read(k, side)]
       /\ seeking' = [seeking EXCEPT ![n] = [s \in Targets |->
                         IF s \in unknown THEN @[s] + 1 ELSE @[s]]]
       /\ UNCHANGED <<channels, faults>>

\* receive_data takes a segment for whole lines: one in two parts is no JSON,
\* and both parts are thrown away.
LoseLine(k, side) ==
    /\ k \in Used
    /\ conn[k].open[side] /\ conn[k].inbox[side] # <<>>
    /\ Fault
    /\ conn' = [conn EXCEPT ![k] = Read(k, side)]
    /\ UNCHANGED <<channels, seeking>>

-----------------------------------------------------------------------------
(* The end of a connection, which each end hears of by itself.             *)

Break(k) ==
    /\ k \in Used /\ conn[k].up
    /\ Fault
    /\ conn' = [conn EXCEPT ![k].up = FALSE]
    /\ UNCHANGED <<channels, seeking>>

Unbound(k, side) ==
    IF conn[k].open[Other(side)]
    THEN [conn[k] EXCEPT !.open[side] = FALSE, !.inbox[side] = <<>>]
    ELSE Free

Breaks(k, side) == k \in Used /\ ~conn[k].up /\ conn[k].open[side]

UnbindKeepsChannel(k, side) ==
    /\ Breaks(k, side)
    /\ conn' = [conn EXCEPT ![k] = Unbound(k, side)]
    /\ seeking' = IF channels[conn[k].at[side]] \ {<<k, side>>} = {}
                  THEN Lookup(conn[k].at[side]) ELSE seeking
    /\ UNCHANGED <<channels, faults>>

\* channel_closed removes all channels of the name the closed one has, and
\* looks for a signpost again when none is left.
Unbind(k, side) ==
    LET n == conn[k].at[side]
        left == {e \in channels[n] : NameOf(e) # conn[k].name[side]}
    IN /\ Breaks(k, side)
       /\ channels' = [channels EXCEPT ![n] = left]
       /\ seeking' = IF left = {} THEN Lookup(n) ELSE seeking
       /\ conn' = [conn EXCEPT ![k] = Unbound(k, side)]
       /\ UNCHANGED <<faults>>

-----------------------------------------------------------------------------
Receive(k, side) ==
    \/ side = "server" /\ HearHi(k)
    \/ side = "client" /\ HearNice(k)
    \/ HearList(k, side)
    \/ HearSignposts(k, side)

Step ==
    \/ \E n \in Nodes, s \in Nodes :
           DnsAnswers(n, s) \/ Connect(n, s) \/ ConnectFails(n, s)
    \/ \E k \in Slots, side \in Sides :
           Receive(k, side) \/ LoseLine(k, side) \/ Unbind(k, side)
    \/ \E k \in Slots : Break(k)

Next == Step /\ UNCHANGED deployment

Spec == Init /\ [][Next]_vars

\* TCP delivers while a connection stands and tells both ends when it is gone;
\* questions are answered.
FairSpec ==
    /\ Spec
    /\ \A n \in Nodes : WF_mesh(\E s \in Nodes : DnsAnswers(n, s))
    /\ \A n \in Nodes : WF_mesh(\E s \in Nodes : Connect(n, s) \/ ConnectFails(n, s))
    /\ \A k \in Slots, side \in Sides : WF_mesh(Receive(k, side) \/ Unbind(k, side))

-----------------------------------------------------------------------------
(* Properties.                                                             *)

\* Every channel a signpost broadcasts on is one it has not been told the end
\* of, to the signpost it takes it for, and never to itself: channels are
\* removed by name, so none is left behind under another.
ChannelsLive ==
    \A n \in Nodes : \A e \in channels[n] :
        /\ e[1] \in Used
        /\ conn[e[1]].open[e[2]] /\ conn[e[1]].at[e[2]] = n
        /\ NameOf(e) = conn[e[1]].at[Other(e[2])] /\ NameOf(e) # n

Quiet ==
    /\ \A n \in Nodes, s \in Targets : seeking[n][s] = 0
    /\ \A k \in Used, side \in Sides : conn[k].up /\ conn[k].inbox[side] = <<>>

\* What is between a signpost and being alone for good: a channel, a search
\* that comes to a signpost the DNS lists, or a connection to another signpost
\* that it will hear on or hear the end of.
InTouch(n) ==
    \/ channels[n] # {}
    \/ \E s \in Listed \cup {None} : seeking[n][s] > 0
    \/ \E k \in Used, side \in Sides :
           /\ conn[k].open[side] /\ conn[k].at[side] = n
           /\ conn[k].at[Other(side)] # n

\* A signpost never drops out of the domain with nothing left to bring it back,
\* whatever breaks, is refused or is lost: the end of its last channel or try
\* makes it look one up again. Not so for one that the listed names lead back to,
\* which does not connect to itself.
NeverAlone ==
    \A n \in Nodes \ (Listed \cup {Home}) :
        (\A s \in Listed : n \notin Reached(s)) => InTouch(n)

\* The lists of signposts connect everyone to everyone when nothing breaks and
\* each signpost is where the domain's address leads to: two that join at the same
\* time are told of each other by one of them or by the one they joined.
MeshComplete ==
    Quiet /\ faults = 0 /\ (\A n \in Nodes : Reached(n) = {n}) =>
        \A m, n \in Nodes : m # n => m \in Names(n)

\* A greeting that is split leaves a connection no one speaks on again.
Mute(k) == /\ k \in Used /\ conn[k].up
           /\ \A side \in Sides : conn[k].inbox[side] = <<>>

\* A signpost whose connections broke comes to a channel again and keeps one,
\* unless it is left on a connection the greeting was lost on, which nothing
\* closes: new_channel is called by a greeting only, and there is no timeout.
Rejoins ==
    \A n \in Nodes \ (Listed \cup {Home}) :
        <>[](\/ channels[n] # {}
             \/ \E k \in Slots, side \in Sides :
                    Mute(k) /\ conn[k].at[side] = n /\ conn[k].name[side] = None)
=============================================================================
