------------------------------- MODULE Gossip -------------------------------
(***************************************************************************)
(* How the signposts of one domain spread truths and ask each other to     *)
(* generate them: CommunicationCentre in psp/lib/tactic_solver/            *)
(* comms_agent.rb over channels that are open, with the part of solver.rb  *)
(* that it drives. One truth name is followed, generated by any signpost;  *)
(* its key in the truths table is then the signpost that generated it.     *)
(***************************************************************************)
EXTENDS Naturals, Sequences, FiniteSets

CONSTANTS
    Nodes,          \* the signposts
    Links,          \* pairs of signposts with a channel, in both directions
    Sources,        \* the signposts whose tactics generate the truth
    Values,         \* values of the truth
    Nothing,        \* no truth known
    Fresh,          \* TRUE: a signpost never provides one value twice
    MaxProvides,    \* bound on the truths each signpost provides unasked
    MaxAsks,        \* bound on the remote resolutions
    MaxReconnects   \* bound on the channels that break and are set up again

ASSUME GossipAssumption ==
    /\ Links \subseteq Nodes \X Nodes
    /\ \A l \in Links : <<l[2], l[1]>> \in Links /\ l[1] # l[2]
    /\ Sources \subseteq Nodes
    /\ Nothing \notin Values
    /\ Fresh \in BOOLEAN
    /\ MaxProvides \in Nat /\ MaxAsks \in Nat /\ MaxReconnects \in Nat

\* The channels lead from every signpost to every other.
ASSUME ConnectedAssumption ==
    \A S \in SUBSET Nodes :
        S # {} /\ (\A l \in Links : l[1] \in S => l[2] \in S) => S = Nodes

VARIABLES
    store,       \* store[n][s]: the value n's truths table has from s
    seen,        \* each signpost's broadcast cache
    chan,        \* data sent and not received, in order, on each channel
    generating,  \* signposts a remote request has set to generate the truth
    pending,     \* <<r, s>>: r asked s and has no truth of s since
    used,        \* history: the values each signpost has provided, in order
    asks, reconnects    \* how much of the bounds is used

vars == <<store, seen, chan, generating, pending, used, asks, reconnects>>

\* What a channel carries. The cache recognises data by a hash of all of it:
\* a truth exported later has less time to live, and so is other data.
Truths == [kind : {"truths"}, known : SUBSET (Nodes \X Values), aged : BOOLEAN]
Resolve == [kind : {"resolve"}, at : Nodes]
Gimme == [kind |-> "gimme_truths"]
Data == Truths \cup Resolve \cup {Gimme}

TypeOK ==
    /\ store \in [Nodes -> [Nodes -> Values \cup {Nothing}]]
    /\ seen \in [Nodes -> SUBSET (Truths \cup Resolve)]
    /\ chan \in [Links -> Seq(Data)]
    /\ generating \subseteq Nodes
    /\ pending \subseteq Nodes \X Nodes
    /\ used \in [Nodes -> Seq(Values)]
    /\ asks \in 0 .. MaxAsks /\ reconnects \in 0 .. MaxReconnects

Init ==
    /\ store = [n \in Nodes |-> [s \in Nodes |-> Nothing]]
    /\ seen = [n \in Nodes |-> {}]
    /\ chan = [l \in Links |-> <<>>]
    /\ generating = {} /\ pending = {}
    /\ used = [n \in Nodes |-> <<>>]
    /\ asks = 0 /\ reconnects = 0

-----------------------------------------------------------------------------
(* SeenName, BroadcastUnmarked and ReconnectOneSided are faulty variants:  *)
(* each breaks a property checked below.                                   *)

Neighbours(n) == {m \in Nodes : <<n, m>> \in Links}

\* Append d to the channels from n to each node of to.
Sent(channels, n, to, d) ==
    [l \in Links |-> IF l[1] = n /\ l[2] \in to THEN Append(channels[l], d)
                                                ELSE channels[l]]

\* exportable_truths: the whole table.
Known(n) == {<<s, store[n][s]>> : s \in {x \in Nodes : store[n][x] # Nothing}}

Learn(n, known) ==
    [store EXCEPT ![n] = [s \in Nodes |->
        IF \E v \in Values : <<s, v>> \in known
        THEN CHOOSE v \in Values : <<s, v>> \in known
        ELSE @[s]]]

\* add_truth, and distribute_truths: a signpost sends its own truth to all its
\* channels, and does not put it into its own cache.
Provide(n, v) ==
    /\ n \in Sources
    /\ n \in generating \/ Len(used[n]) < MaxProvides
    /\ Fresh => \A i \in DOMAIN used[n] : used[n][i] # v
    /\ used' = [used EXCEPT ![n] = Append(@, v)]
    /\ store' = Learn(n, {<<n, v>>})
    /\ chan' = Sent(chan, n, Neighbours(n),
                    [kind |-> "truths", known |-> {<<n, v>>}, aged |-> FALSE])
    /\ generating' = generating \ {n}
    /\ pending' = pending \ {<<n, n>>}
    /\ UNCHANGED <<seen, asks, reconnects>>

\* remote_resolve: a tactic on r needs the truth of s, which r does not have.
Ask(r, s) ==
    LET query == [kind |-> "resolve", at |-> s]
    IN /\ r # s
       /\ store[r][s] = Nothing
       /\ asks < MaxAsks
       /\ asks' = asks + 1
       /\ pending' = pending \cup {<<r, s>>}
       /\ seen' = [seen EXCEPT ![r] = @ \cup {query}]
       /\ chan' = Sent(chan, r, Neighbours(r), query)
       /\ UNCHANGED <<store, generating, used, reconnects>>

-----------------------------------------------------------------------------
(* CommunicationCentre.receive.                                            *)

SeenName(n, d) ==
    \E e \in seen[n] :
        /\ e.kind = d.kind
        /\ d.kind = "truths" => {k[1] : k \in e.known} = {k[1] : k \in d.known}

\* should_broadcast?, negated.
Seen(n, d) == d \in seen[n]

Take(m, n, d) ==
    /\ chan[<<m, n>>] # <<>>
    /\ d = Head(chan[<<m, n>>])

Rest(m, n) == [chan EXCEPT ![<<m, n>>] = Tail(@)]

\* Data in the cache is neither acted on nor sent on.
Drop(m, n) ==
    /\ Take(m, n, Head(chan[<<m, n>>]))
    /\ Seen(n, Head(chan[<<m, n>>]))
    /\ chan' = Rest(m, n)
    /\ UNCHANGED <<store, seen, generating, pending, used, asks, reconnects>>

BroadcastUnmarked(m, n, d) ==
    /\ UNCHANGED seen
    /\ chan' = Sent(Rest(m, n), n, Neighbours(n) \ {m}, d)

\* broadcast: remember the data and send it to all but its sender.
Broadcast(m, n, d) ==
    /\ seen' = [seen EXCEPT ![n] = @ \cup {d}]
    /\ chan' = Sent(Rest(m, n), n, Neighbours(n) \ {m}, d)

ReceiveTruths(m, n, d) ==
    /\ Take(m, n, d)
    /\ d.kind = "truths" /\ ~Seen(n, d)
    /\ Broadcast(m, n, d)
    /\ store' = Learn(n, d.known)
    /\ pending' = {p \in pending : p[1] = n => \A k \in d.known : k[1] # p[2]}
    /\ UNCHANGED <<generating, used, asks, reconnects>>

\* resolve asks the node's own solver, for the truth of any signpost: what the
\* cache has is the answer, and nothing is generated or distributed.
ReceiveResolve(m, n, d) ==
    /\ Take(m, n, d)
    /\ d.kind = "resolve" /\ ~Seen(n, d)
    /\ Broadcast(m, n, d)
    /\ generating' = IF d.at = n /\ Known(n) = {} THEN generating \cup {n} ELSE generating
    /\ UNCHANGED <<store, pending, used, asks, reconnects>>

\* gimme_truths: everything in the table, with the time it has left.
ReceiveGimme(m, n, d) ==
    /\ Take(m, n, d)
    /\ d.kind = "gimme_truths"
    /\ \E aged \in BOOLEAN :
           chan' = IF Known(n) = {} THEN Rest(m, n)
                   ELSE Sent(Rest(m, n), n, {m},
                             [kind |-> "truths", known |-> Known(n), aged |-> aged])
    /\ UNCHANGED <<store, seen, generating, pending, used, asks, reconnects>>

\* prune_broadcast_cache: entries older than 30 seconds, which outlast a flood.
Prune(n, d) ==
    /\ d \in seen[n]
    /\ \A l \in Links : \A i \in DOMAIN chan[l] : chan[l][i] # d
    /\ seen' = [seen EXCEPT ![n] = @ \ {d}]
    /\ UNCHANGED <<store, chan, generating, pending, used, asks, reconnects>>

ReconnectOneSided(m, n) ==
    /\ reconnects < MaxReconnects
    /\ reconnects' = reconnects + 1
    /\ chan' = [chan EXCEPT ![<<m, n>>] = <<Gimme>>, ![<<n, m>>] = <<>>]
    /\ UNCHANGED <<store, seen, generating, pending, used, asks>>

\* A channel breaks, losing what it carried, and is set up again: both ends
\* ask the other for its truths in new_channel.
Reconnect(m, n) ==
    /\ reconnects < MaxReconnects
    /\ reconnects' = reconnects + 1
    /\ chan' = [chan EXCEPT ![<<m, n>>] = <<Gimme>>, ![<<n, m>>] = <<Gimme>>]
    /\ UNCHANGED <<store, seen, generating, pending, used, asks>>

Receive(m, n) ==
    \/ Drop(m, n)
    \/ LET d == Head(chan[<<m, n>>]) IN
           \/ ReceiveTruths(m, n, d)
           \/ ReceiveResolve(m, n, d)
           \/ ReceiveGimme(m, n, d)

Next ==
    \/ \E n \in Nodes, v \in Values : Provide(n, v)
    \/ \E r, s \in Nodes : Ask(r, s)
    \/ \E l \in Links : Receive(l[1], l[2]) \/ Reconnect(l[1], l[2])
    \/ \E n \in Nodes : \E d \in seen[n] : Prune(n, d)

Spec == Init /\ [][Next]_vars

\* Channels deliver, and a signpost set to generate the truth does.
FairSpec ==
    /\ Spec
    /\ \A l \in Links : WF_vars(Receive(l[1], l[2]))
    /\ \A n \in Nodes : WF_vars(n \in generating /\ \E v \in Values : Provide(n, v))

-----------------------------------------------------------------------------
(* Properties.                                                             *)

Quiet == \A l \in Links : chan[l] = <<>>

Latest(s) == IF used[s] = <<>> THEN Nothing ELSE used[s][Len(used[s])]

\* A flood ends: no truth and no query circulates for ever, cycles of channels
\* or not.
FloodEnds == <>[]Quiet

\* When nothing is under way and no channel has broken every other signpost
\* has the last value each one has provided: copies that took different paths
\* were applied in the order they were provided, and no cache kept a signpost
\* from learning one.
OthersConverge ==
    Quiet /\ reconnects = 0 => \A n, s \in Nodes : n # s => store[n][s] = Latest(s)

\* What a broken channel lost is made up for when it is set up again: no
\* signpost is left without any value of a truth that has been provided.
NoTruthMissing ==
    Quiet => \A n, s \in Nodes : store[n][s] = Nothing => Latest(s) = Nothing

\* Others' truths in each signpost's table, as copies of what those provided.
Copies == INSTANCE Replicas WITH
    written <- used,
    copy <- [n \in Nodes |-> [s \in Nodes \ {n} |-> store[n][s]]],
    broken <- reconnects > 0

\* A signpost has no truth that its source did not provide, and until a channel
\* breaks comes to the values of each source one by one, in the order they were
\* provided, whichever way round they take: it skips none and never goes back.
CopiesAdvance == Copies!Spec

\* A signpost's table has the last value it provided itself: it never acts on
\* old data of its own. It fails, for its own data is not in its cache.
OwnTruthIsLatest == \A n \in Nodes : store[n][n] = Latest(n)

\* The result of a remote resolution is sent to the signpost that needs it. It
\* fails where the signpost that is asked has a truth of another in its table.
RemoteResolved == \A r, s \in Nodes : (<<r, s>> \in pending) ~> (<<r, s>> \notin pending)
=============================================================================
