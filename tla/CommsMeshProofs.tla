--------------------------- MODULE CommsMeshProofs ---------------------------
(***************************************************************************)
(* Proofs about CommsMesh, for any signposts, deployments and bound on the *)
(* connections: that the channels a signpost broadcasts on are live, that  *)
(* none is left alone, and that all come to be connected to all.           *)
(***************************************************************************)
EXTENDS CommsMesh, TLAPS

\* Channels are removed by the name of the one that is closed: what makes that
\* right is that names are those of the other ends, so that the two parts are
\* inductive together and neither is without the other.
MeshInv == TypeOK /\ ChannelsLive

-----------------------------------------------------------------------------
(* Connections.                                                            *)

LEMMA FreeIsNone == Free \notin Connection
  <1>. SUFFICES ASSUME Free \in Connection PROVE FALSE
    OBVIOUS
  <1>1. DOMAIN Free = {"at", "up", "open", "name", "inbox"}
    BY DEF Connection
  <1>2. DOMAIN Free = {"up"}
    BY DEF Free
  <1>. QED BY <1>1, <1>2

LEMMA UsedTyped == ASSUME TypeOK, NEW k \in Used PROVE k \in Slots /\ conn[k] \in Connection
  BY DEF TypeOK, Used

LEMMA UsedIsConnection ==
    ASSUME TypeOK, NEW k \in Slots PROVE k \in Used <=> conn[k] \in Connection
  BY FreeIsNone DEF TypeOK, Used

LEMMA Sides2 == \A side \in Sides : Other(side) \in Sides /\ Other(side) # side
                                    /\ Other(Other(side)) = side
  BY DEF Sides, Other

LEMMA HeadTail ==
    ASSUME NEW s \in Seq(Line), s # <<>>
    PROVE  Head(s) \in Line /\ Tail(s) \in Seq(Line)
  OBVIOUS

LEMMA LinesTyped == Hi \in Line /\ Nice \in Line /\ List \in Line
                    /\ \A S \in SUBSET Nodes : Signposts(S) \in Line
  BY DEF Hi, Nice, List, Signposts, Line

\* What a line that is sent or read leaves alone.
SameEnds(c, d) == c.at = d.at /\ c.open = d.open /\ c.name = d.name

LEMMA SentTyped ==
    ASSUME NEW c \in Connection, NEW side \in Sides, NEW lines \in Seq(Line)
    PROVE  Sent(c, side, lines) \in Connection /\ SameEnds(Sent(c, side, lines), c)
  <1>1. c.inbox \in [Sides -> Seq(Line)] /\ c.inbox[side] \o lines \in Seq(Line)
    BY DEF Connection
  <1>. QED BY <1>1 DEF Sent, Connection, SameEnds

LEMMA ReadTyped ==
    ASSUME TypeOK, NEW k \in Used, NEW side \in Sides, conn[k].inbox[side] # <<>>
    PROVE  Read(k, side) \in Connection /\ SameEnds(Read(k, side), conn[k])
  <1>1. conn[k] \in Connection
    BY UsedTyped
  <1>2. Tail(conn[k].inbox[side]) \in Seq(Line)
    BY <1>1, HeadTail DEF Connection
  <1>. QED BY <1>1, <1>2 DEF Read, Connection, SameEnds

LEMMA HalfClosed ==
    ASSUME NEW c \in Connection, NEW side \in Sides
    PROVE  LET d == [c EXCEPT !.open[side] = FALSE, !.inbox[side] = <<>>]
           IN  /\ d \in Connection /\ d.at = c.at /\ d.name = c.name
               /\ \A other \in Sides \ {side} : d.open[other] = c.open[other]
  <1>1. /\ c.open \in [Sides -> BOOLEAN] /\ c.inbox \in [Sides -> Seq(Line)]
        /\ <<>> \in Seq(Line)
    BY DEF Connection
  <1>2. /\ [c.open EXCEPT ![side] = FALSE] \in [Sides -> BOOLEAN]
        /\ \A other \in Sides \ {side} :
               [c.open EXCEPT ![side] = FALSE][other] = c.open[other]
        /\ [c.inbox EXCEPT ![side] = <<>>] \in [Sides -> Seq(Line)]
    BY <1>1
  <1>. QED BY <1>2 DEF Connection

LEMMA NamesTyped == ASSUME MeshInv, NEW n \in Nodes PROVE Names(n) \in SUBSET Nodes
  <1>. SUFFICES ASSUME NEW e \in channels[n] PROVE NameOf(e) \in Nodes
    BY DEF Names
  <1>1. e[1] \in Used /\ e[2] \in Sides /\ NameOf(e) = conn[e[1]].at[Other(e[2])]
    BY DEF MeshInv, ChannelsLive, TypeOK
  <1>. QED BY <1>1, UsedTyped, Sides2 DEF MeshInv, Connection

\* A line under way changes nothing of who is connected to whom.
LEMMA LinesKeepChannels ==
    ASSUME MeshInv, NEW k \in Used, NEW c \in Connection, SameEnds(c, conn[k]),
           conn' = [conn EXCEPT ![k] = c], UNCHANGED channels
    PROVE  /\ conn' \in [Slots -> Connection \cup {Free}]
           /\ channels' \in [Nodes -> SUBSET (Slots \X Sides)]
           /\ ChannelsLive'
  <1>1. k \in Slots /\ conn \in [Slots -> Connection \cup {Free}]
    BY UsedTyped DEF MeshInv, TypeOK
  <1>2. Used' = Used
    BY <1>1, FreeIsNone DEF Used
  <1>3. \A j \in Used : SameEnds(conn'[j], conn[j])
    BY <1>1 DEF SameEnds, Used
  <1>4. ChannelsLive'
    BY <1>2, <1>3 DEF MeshInv, ChannelsLive, NameOf, SameEnds
  <1>. QED BY <1>1, <1>4 DEF MeshInv, TypeOK

-----------------------------------------------------------------------------
(* The table of Questions and the count of faults.                         *)

LEMMA SeekingTyped ==
    ASSUME TypeOK
    PROVE  /\ seeking \in [Nodes -> [Targets -> Nat]]
           /\ None \in Targets /\ \A s \in Nodes : s \in Targets /\ s # None
  BY MeshAssumption DEF TypeOK, Targets

LEMMA LookupTyped ==
    ASSUME TypeOK, NEW n \in Nodes
    PROVE  Lookup(n) \in [Nodes -> [Targets -> Nat]]
  BY SeekingTyped DEF Lookup

LEMMA FaultTyped ==
    ASSUME TypeOK, Fault, UNCHANGED deployment
    PROVE  faults' \in 0 .. deployment'.faults
  BY MeshAssumption DEF Fault, TypeOK

-----------------------------------------------------------------------------
(* Each step.                                                              *)

\* The steps of the DNS and those that only fail.
LEMMA SeekingStep ==
    ASSUME MeshInv, UNCHANGED deployment, NEW n \in Nodes, NEW s \in Nodes,
           DnsAnswers(n, s) \/ ConnectFails(n, s)
    PROVE  MeshInv'
  <1>1. ChannelsLive'
    BY DEF MeshInv, ChannelsLive, DnsAnswers, ConnectFails, Used, NameOf
  <1>2. CASE DnsAnswers(n, s)
    <2>1. /\ seeking[n][None] > 0
          /\ seeking' = [seeking EXCEPT ![n][None] = @ - 1,
                                        ![n][s] = IF s = n THEN @ ELSE @ + 1]
          /\ UNCHANGED <<conn, channels, faults>>
      BY <1>2 DEF DnsAnswers
    <2>2. seeking' \in [Nodes -> [Targets -> Nat]]
      BY <2>1, SeekingTyped DEF MeshInv
    <2>. QED BY <1>1, <2>1, <2>2 DEF MeshInv, TypeOK
  <1>3. CASE ConnectFails(n, s)
    <2>. DEFINE before == IF channels[n] = {} THEN Lookup(n) ELSE seeking
    <2>1. before \in [Nodes -> [Targets -> Nat]]
      BY LookupTyped DEF MeshInv, TypeOK
    <2>2. s \in Targets /\ before[n][s] > 0
      BY <1>3, SeekingTyped DEF ConnectFails, Lookup, MeshInv
    <2>3. seeking' = [before EXCEPT ![n][s] = @ - 1]
      BY <1>3 DEF ConnectFails
    <2>. HIDE DEF before
    <2>4. seeking' \in [Nodes -> [Targets -> Nat]]
      BY <2>1, <2>2, <2>3
    <2>5. faults' \in 0 .. deployment'.faults
      BY <1>3, FaultTyped DEF ConnectFails, MeshInv, TypeOK
    <2>. QED BY <1>1, <1>3, <2>4, <2>5 DEF ConnectFails, MeshInv, TypeOK
  <1>. QED BY <1>2, <1>3

LEMMA ConnectStep ==
    ASSUME MeshInv, UNCHANGED deployment, NEW n \in Nodes, NEW s \in Nodes, Connect(n, s)
    PROVE  MeshInv'
  <1>1. PICK m \in Reached(s), k \in Slots \ Used :
            /\ seeking[n][s] > 0
            /\ seeking' = [seeking EXCEPT ![n][s] = @ - 1]
            /\ conn' = [conn EXCEPT ![k] =
                   [at |-> [side \in Sides |-> IF side = "client" THEN n ELSE m],
                    up |-> TRUE, open |-> [side \in Sides |-> TRUE],
                    name |-> [side \in Sides |-> None],
                    inbox |-> [side \in Sides |-> IF side = "server" THEN <<Hi>> ELSE <<>>]]]
            /\ UNCHANGED <<channels, faults>>
    BY DEF Connect
  <1>. DEFINE c == conn'[k]
  <1>2. c = [at |-> [side \in Sides |-> IF side = "client" THEN n ELSE m],
             up |-> TRUE, open |-> [side \in Sides |-> TRUE],
             name |-> [side \in Sides |-> None],
             inbox |-> [side \in Sides |-> IF side = "server" THEN <<Hi>> ELSE <<>>]]
    BY <1>1 DEF MeshInv, TypeOK
  <1>3. c \in Connection
    <2>1. <<Hi>> \in Seq(Line) /\ <<>> \in Seq(Line)
      BY LinesTyped
    <2>2. m \in Nodes
      BY DEF Reached
    <2>. QED BY <1>2, <2>1, <2>2 DEF Connection, Targets
  <1>4. conn' \in [Slots -> Connection \cup {Free}] /\ \A j \in Used : conn'[j] = conn[j]
    BY <1>1, <1>3 DEF MeshInv, TypeOK, Used
  <1>5. \A j \in Used : j \in Used'
    BY <1>4 DEF Used
  <1>6. ChannelsLive'
    BY <1>1, <1>4, <1>5 DEF MeshInv, ChannelsLive, NameOf
  <1>7. seeking' \in [Nodes -> [Targets -> Nat]]
    BY <1>1, SeekingTyped DEF MeshInv
  <1>. QED BY <1>1, <1>4, <1>6, <1>7 DEF MeshInv, TypeOK

\* A channel is entered under the name of the other end, unless that is itself.
LEMMA NewChannelStep ==
    ASSUME MeshInv, UNCHANGED <<deployment, seeking, faults>>, NEW k \in Used,
           NEW side \in Sides, NEW greeting \in Seq(Line),
           conn[k].open[side], conn[k].inbox[side] # <<>>,
           NewChannel(k, side, greeting)
    PROVE  MeshInv'
  <1>. DEFINE n == conn[k].at[side]
              other == conn[k].at[Other(side)]
              c == Sent(Meets(k, side), Other(side), Append(greeting, List))
  <1>1. /\ k \in Slots /\ conn[k] \in Connection /\ n \in Nodes /\ other \in Nodes
        /\ Other(side) \in Sides
    BY UsedTyped, Sides2 DEF MeshInv, Connection
  <1>2. conn[k].at["client"] = conn[k].at["server"] <=> n = other
    BY DEF Sides, Other
  <1>3. CASE n = other
    <2>1. conn' = [conn EXCEPT ![k] = Free] /\ UNCHANGED channels
      BY <1>2, <1>3 DEF NewChannel
    <2>2. \A m \in Nodes : \A e \in channels[m] : e[1] # k
      <3>. SUFFICES ASSUME NEW m \in Nodes, NEW e \in channels[m], e[1] = k PROVE FALSE
        OBVIOUS
      <3>1. e[2] \in Sides /\ conn[k].at[e[2]] = m /\ conn[k].at[Other(e[2])] # m
        BY DEF MeshInv, TypeOK, ChannelsLive
      <3>. QED BY <1>3, <3>1 DEF Sides, Other
    <2>3. \A j \in Used \ {k} : j \in Used' /\ conn'[j] = conn[j]
      BY <2>1 DEF MeshInv, TypeOK, Used
    <2>4. ChannelsLive'
      BY <2>1, <2>2, <2>3 DEF MeshInv, ChannelsLive, NameOf
    <2>. QED BY <2>1, <2>4 DEF MeshInv, TypeOK
  <1>4. CASE n # other
    <2>1. /\ conn' = [conn EXCEPT ![k] = c]
          /\ channels' = [channels EXCEPT ![n] = @ \cup {<<k, side>>}]
      BY <1>2, <1>4 DEF NewChannel
    <2>2. /\ Meets(k, side) \in Connection
          /\ Meets(k, side).at = conn[k].at /\ Meets(k, side).open = conn[k].open
          /\ Meets(k, side).name = [conn[k].name EXCEPT ![side] = other]
      BY <1>1, ReadTyped DEF Meets, MeshInv, Connection, Targets, SameEnds
    <2>3. Append(greeting, List) \in Seq(Line)
      BY LinesTyped
    <2>4. /\ c \in Connection
          /\ c.at = conn[k].at /\ c.open = conn[k].open
          /\ c.name = [conn[k].name EXCEPT ![side] = other]
      BY <1>1, <2>2, <2>3, SentTyped DEF SameEnds
    <2>. HIDE DEF c
    <2>5. /\ conn' \in [Slots -> Connection \cup {Free}]
          /\ channels' \in [Nodes -> SUBSET (Slots \X Sides)]
      BY <1>1, <2>1, <2>4 DEF MeshInv, TypeOK
    <2>6. conn'[k] = c /\ k \in Used' /\ \A j \in Used \ {k} : j \in Used' /\ conn'[j] = conn[j]
      BY <1>1, <2>1, <2>4, FreeIsNone DEF MeshInv, TypeOK, Used
    <2>7. ASSUME NEW m \in Nodes, NEW e \in channels'[m]
          PROVE  /\ e[1] \in Used'
                 /\ conn'[e[1]].open[e[2]] /\ conn'[e[1]].at[e[2]] = m
                 /\ conn'[e[1]].name[e[2]] = conn'[e[1]].at[Other(e[2])]
                 /\ conn'[e[1]].name[e[2]] # m
      <3>1. CASE e = <<k, side>> /\ m = n
        <4>1. conn[k].name \in [Sides -> Targets]
          BY <1>1 DEF Connection
        <4>2. c.name[side] = other
          BY <2>4, <4>1
        <4>. QED BY <1>4, <2>4, <2>6, <3>1, <4>2
      <3>2. CASE e \in channels[m] /\ ~(e = <<k, side>> /\ m = n)
        <4>1. /\ e \in Slots \X Sides /\ e[1] \in Used
              /\ conn[e[1]].open[e[2]] /\ conn[e[1]].at[e[2]] = m
              /\ conn[e[1]].name[e[2]] = conn[e[1]].at[Other(e[2])]
              /\ conn[e[1]].name[e[2]] # m
          BY <3>2 DEF MeshInv, TypeOK, ChannelsLive, NameOf
        <4>2. CASE e[1] # k
          BY <2>6, <4>1, <4>2
        <4>3. CASE e[1] = k
          <5>1. e[2] # side
            BY <3>2, <4>1, <4>3
          <5>2. c.name[e[2]] = conn[k].name[e[2]]
            BY <1>1, <2>4, <4>1, <5>1 DEF Connection
          <5>. QED BY <2>4, <2>6, <4>1, <4>3, <5>2
        <4>. QED BY <4>2, <4>3
      <3>. QED BY <1>1, <2>1, <3>1, <3>2 DEF MeshInv, TypeOK
    <2>8. ChannelsLive'
      BY <2>7 DEF ChannelsLive, NameOf
    <2>. QED BY <2>5, <2>8 DEF MeshInv, TypeOK
  <1>. QED BY <1>3, <1>4

LEMMA HeardTyped ==
    ASSUME MeshInv, NEW k \in Slots, NEW side \in Sides, NEW kind, Hears(k, side, kind)
    PROVE  /\ k \in Used /\ conn[k].at[side] \in Nodes /\ Other(side) \in Sides
           /\ conn[k].open[side] /\ conn[k].inbox[side] # <<>>
           /\ Head(conn[k].inbox[side]) \in Line
           /\ Read(k, side) \in Connection /\ SameEnds(Read(k, side), conn[k])
  <1>1. k \in Used /\ conn[k].open[side] /\ conn[k].inbox[side] # <<>>
    BY DEF Hears
  <1>2. conn[k].at[side] \in Nodes /\ conn[k].inbox[side] \in Seq(Line)
    BY <1>1, UsedTyped DEF MeshInv, Connection
  <1>. QED BY <1>1, <1>2, HeadTail, ReadTyped, Sides2 DEF MeshInv

LEMMA ReceiveStep ==
    ASSUME MeshInv, UNCHANGED deployment, NEW k \in Slots, NEW side \in Sides, Receive(k, side)
    PROVE  MeshInv'
  <1>1. CASE side = "server" /\ HearHi(k)
    <2>1. Hears(k, side, "hi_i_am") /\ NewChannel(k, side, <<Nice>>) /\ UNCHANGED <<seeking, faults>>
      BY <1>1 DEF HearHi
    <2>2. <<Nice>> \in Seq(Line)
      BY LinesTyped
    <2>. QED BY <2>1, <2>2, HeardTyped, NewChannelStep
  <1>2. CASE side = "client" /\ HearNice(k)
    <2>1. /\ Hears(k, side, "nice_to_meet_you_i_am") /\ NewChannel(k, side, <<>>)
          /\ UNCHANGED <<seeking, faults>>
      BY <1>2 DEF HearNice
    <2>2. <<>> \in Seq(Line)
      OBVIOUS
    <2>. QED BY <2>1, <2>2, HeardTyped, NewChannelStep
  <1>3. CASE HearList(k, side)
    <2>. DEFINE n == conn[k].at[side]
                c == Sent(Read(k, side), Other(side), <<Signposts(Names(n))>>)
    <2>1. /\ Hears(k, side, "list_of_signposts") /\ conn' = [conn EXCEPT ![k] = c]
          /\ UNCHANGED <<channels, seeking, faults>>
      BY <1>3 DEF HearList
    <2>2. <<Signposts(Names(n))>> \in Seq(Line)
      BY <2>1, HeardTyped, NamesTyped, LinesTyped
    <2>3. /\ Read(k, side) \in Connection /\ SameEnds(Read(k, side), conn[k])
          /\ Other(side) \in Sides
      BY <2>1, HeardTyped
    <2>4. c \in Connection /\ SameEnds(c, Read(k, side))
      BY <2>2, <2>3, SentTyped
    <2>. HIDE DEF c
    <2>5. SameEnds(c, conn[k])
      BY <2>3, <2>4 DEF SameEnds
    <2>. QED BY <2>1, <2>4, <2>5, HeardTyped, LinesKeepChannels DEF MeshInv, TypeOK
  <1>4. CASE HearSignposts(k, side)
    <2>1. /\ Hears(k, side, "signposts") /\ conn' = [conn EXCEPT ![k] = Read(k, side)]
          /\ UNCHANGED <<channels, faults>>
      BY <1>4 DEF HearSignposts
    <2>2. PICK unknown : seeking' = [seeking EXCEPT ![conn[k].at[side]] = [s \in Targets |->
                             IF s \in unknown THEN @[s] + 1 ELSE @[s]]]
      BY <1>4 DEF HearSignposts
    <2>3. seeking' \in [Nodes -> [Targets -> Nat]]
      BY <2>1, <2>2, HeardTyped, SeekingTyped DEF MeshInv
    <2>. QED BY <2>1, <2>3, HeardTyped, LinesKeepChannels DEF MeshInv, TypeOK
  <1>. QED BY <1>1, <1>2, <1>3, <1>4 DEF Receive

LEMMA FaultStep ==
    ASSUME MeshInv, UNCHANGED deployment, NEW k \in Slots, NEW side \in Sides,
           LoseLine(k, side) \/ Break(k)
    PROVE  MeshInv'
  <1>1. k \in Used /\ Fault /\ UNCHANGED <<channels, seeking>>
    BY DEF LoseLine, Break
  <1>2. PICK c \in Connection : SameEnds(c, conn[k]) /\ conn' = [conn EXCEPT ![k] = c]
    <2>1. CASE LoseLine(k, side)
      BY <2>1, ReadTyped DEF LoseLine, MeshInv
    <2>2. CASE Break(k)
      <3>. DEFINE c == [conn[k] EXCEPT !.up = FALSE]
      <3>1. c \in Connection /\ SameEnds(c, conn[k])
        BY <1>1, UsedTyped DEF Connection, SameEnds, MeshInv
      <3>. QED BY <2>2, <3>1 DEF Break
    <2>. QED BY <2>1, <2>2
  <1>3. faults' \in 0 .. deployment'.faults
    BY <1>1, FaultTyped DEF MeshInv
  <1>. QED BY <1>1, <1>2, <1>3, LinesKeepChannels DEF MeshInv, TypeOK

\* The end that hears of it drops every channel of that name, and so the one on
\* this connection.
LEMMA UnbindStep ==
    ASSUME MeshInv, UNCHANGED deployment, NEW k \in Slots, NEW side \in Sides, Unbind(k, side)
    PROVE  MeshInv'
  <1>. DEFINE n == conn[k].at[side]
              left == {e \in channels[n] : NameOf(e) # conn[k].name[side]}
              c == Unbound(k, side)
  <1>1. /\ k \in Used /\ channels' = [channels EXCEPT ![n] = left]
        /\ seeking' = IF left = {} THEN Lookup(n) ELSE seeking
        /\ conn' = [conn EXCEPT ![k] = c] /\ UNCHANGED faults
    BY DEF Unbind, Breaks
  <1>2. conn[k] \in Connection /\ n \in Nodes /\ Other(side) \in Sides
    BY <1>1, UsedTyped, Sides2 DEF MeshInv, Connection
  <1>3. c \in Connection \cup {Free}
    BY <1>2, HalfClosed DEF Unbound
  <1>4. /\ conn' \in [Slots -> Connection \cup {Free}]
        /\ channels' \in [Nodes -> SUBSET (Slots \X Sides)]
        /\ seeking' \in [Nodes -> [Targets -> Nat]]
    BY <1>1, <1>2, <1>3, LookupTyped DEF MeshInv, TypeOK
  <1>5. \A m \in Nodes : channels'[m] \subseteq channels[m]
    BY <1>1 DEF MeshInv, TypeOK
  <1>6. \A j \in Used \ {k} : j \in Used' /\ conn'[j] = conn[j]
    BY <1>1 DEF MeshInv, TypeOK, Used
  <1>7. ASSUME NEW m \in Nodes, NEW e \in channels'[m]
        PROVE  /\ e[1] \in Used'
               /\ conn'[e[1]].open[e[2]] /\ conn'[e[1]].at[e[2]] = m
               /\ conn'[e[1]].name[e[2]] = conn'[e[1]].at[Other(e[2])]
               /\ conn'[e[1]].name[e[2]] # m
    <2>1. /\ e \in channels[m] /\ e \in Slots \X Sides /\ e[1] \in Used
          /\ conn[e[1]].open[e[2]] /\ conn[e[1]].at[e[2]] = m
          /\ conn[e[1]].name[e[2]] = conn[e[1]].at[Other(e[2])]
          /\ conn[e[1]].name[e[2]] # m
      BY <1>5 DEF MeshInv, TypeOK, ChannelsLive, NameOf
    <2>2. CASE e[1] # k
      BY <1>6, <2>1, <2>2
    <2>3. CASE e[1] = k
      <3>1. e[2] # side
        <4>. SUFFICES ASSUME e[2] = side PROVE FALSE
          OBVIOUS
        <4>1. m = n /\ NameOf(e) = conn[k].name[side]
          BY <2>1, <2>3 DEF NameOf
        <4>2. e \in left
          BY <1>1, <1>2, <4>1 DEF MeshInv, TypeOK
        <4>. QED BY <4>1, <4>2
      <3>2. e[2] = Other(side)
        BY <2>1, <3>1 DEF Sides, Other
      <3>3. c = [conn[k] EXCEPT !.open[side] = FALSE, !.inbox[side] = <<>>]
        BY <2>1, <2>3, <3>2 DEF Unbound
      <3>4. /\ c \in Connection /\ c.at = conn[k].at /\ c.name = conn[k].name
            /\ c.open[e[2]] = conn[k].open[e[2]]
        <4>1. e[2] \in Sides \ {side}
          BY <2>1, <3>1
        <4>. HIDE DEF c
        <4>. QED BY ONLY <1>2, <3>3, <4>1, HalfClosed
      <3>5. conn'[k] = c /\ k \in Used'
        BY <1>1, <3>4, FreeIsNone DEF MeshInv, TypeOK, Used
      <3>. QED BY <2>1, <2>3, <3>4, <3>5
    <2>. QED BY <2>2, <2>3
  <1>8. ChannelsLive'
    BY <1>7 DEF ChannelsLive, NameOf
  <1>. QED BY <1>1, <1>4, <1>8 DEF MeshInv, TypeOK

-----------------------------------------------------------------------------
(* The theorems.                                                           *)

LEMMA MeshInit == Init => MeshInv
  <1>. SUFFICES ASSUME Init PROVE MeshInv
    OBVIOUS
  <1>1. ChannelsLive
    BY DEF Init, ChannelsLive
  <1>2. faults \in 0 .. deployment.faults
    BY MeshAssumption DEF Init
  <1>. QED BY <1>1, <1>2 DEF Init, MeshInv, TypeOK

LEMMA MeshStep == MeshInv /\ [Next]_vars => MeshInv'
  <1>. SUFFICES ASSUME MeshInv, [Next]_vars PROVE MeshInv'
    OBVIOUS
  <1>1. CASE UNCHANGED vars
    BY <1>1 DEF vars, mesh, MeshInv, TypeOK, ChannelsLive, Used, NameOf
  <1>2. CASE Step /\ UNCHANGED deployment
    <2>1. ASSUME NEW n \in Nodes, NEW s \in Nodes,
                 DnsAnswers(n, s) \/ Connect(n, s) \/ ConnectFails(n, s)
          PROVE  MeshInv'
      BY <1>2, <2>1, SeekingStep, ConnectStep
    <2>2. ASSUME NEW k \in Slots, NEW side \in Sides,
                 Receive(k, side) \/ LoseLine(k, side) \/ Unbind(k, side) \/ Break(k)
          PROVE  MeshInv'
      BY <1>2, <2>2, ReceiveStep, FaultStep, UnbindStep
    <2>3. "client" \in Sides
      BY DEF Sides
    <2>. QED BY <1>2, <2>1, <2>2, <2>3 DEF Step
  <1>. QED BY <1>1, <1>2 DEF Next

\* The tables of every signpost keep their form: in particular no count of
\* Questions falls below zero and each line names signposts only.
THEOREM MeshTyped == Spec => []TypeOK
  <1>1. MeshInv => TypeOK
    BY DEF MeshInv
  <1>. QED BY <1>1, MeshInit, MeshStep, PTL DEF Spec

\* Whatever connects, breaks and is told late at one end, every channel that
\* comms_agent.rb broadcasts on is one whose end it was not told of, to the
\* signpost it takes it for, and not to itself.
THEOREM ChannelsStayLive == Spec => []ChannelsLive
  <1>1. MeshInv => ChannelsLive
    BY DEF MeshInv
  <1>. QED BY <1>1, MeshInit, MeshStep, PTL DEF Spec

-----------------------------------------------------------------------------
(* No one left alone.                                                      *)

\* n is at an end of connection k, to another signpost, and was not told that
\* it ended.
Held(k, side, n) ==
    /\ k \in Used /\ conn[k].open[side] /\ conn[k].at[side] = n
    /\ conn[k].at[Other(side)] # n

\* Who the DNS leads to another signpost.
Led(n) == n \in Nodes \ (Listed \cup {Home}) /\ \A s \in Listed : n \notin Reached(s)

TouchInv == MeshInv /\ NeverAlone

\* What a step has to leave of a signpost.
LEMMA TouchKept ==
    ASSUME NEW n, InTouch(n),
           channels[n] # {} => channels'[n] # {},
           \A s \in Listed \cup {None} : seeking[n][s] > 0 => seeking'[n][s] > 0,
           \A k \in Used, side \in Sides : Held(k, side, n) => Held(k, side, n)'
    PROVE  InTouch(n)'
  <1>1. CASE channels[n] # {} \/ \E s \in Listed \cup {None} : seeking[n][s] > 0
    BY <1>1 DEF InTouch
  <1>2. CASE \E k \in Used, side \in Sides : Held(k, side, n)
    BY <1>2 DEF InTouch, Held
  <1>. QED BY <1>1, <1>2 DEF InTouch, Held

\* A connection that only had lines read or sent is held by whom it was.
LEMMA HeldOnChange ==
    ASSUME TypeOK, NEW k \in Used, NEW c \in Connection,
           c.at = conn[k].at, c.open = conn[k].open, conn' = [conn EXCEPT ![k] = c],
           NEW n, NEW j \in Used, NEW side \in Sides, Held(j, side, n)
    PROVE  Held(j, side, n)'
  <1>1. j \in Used' /\ conn'[j].at = conn[j].at /\ conn'[j].open = conn[j].open
    BY FreeIsNone, UsedTyped DEF TypeOK, Used
  <1>. QED BY <1>1 DEF Held

\* What the DNS answers is looked for next; what is refused is looked up again
\* by whoever has no channel.
LEMMA SeekingInTouch ==
    ASSUME MeshInv, UNCHANGED deployment, NEW m \in Nodes, NEW s \in Nodes,
           DnsAnswers(m, s) \/ ConnectFails(m, s),
           NEW n, Led(n), InTouch(n)
    PROVE  InTouch(n)'
  <1>1. /\ n \in Nodes /\ UNCHANGED <<conn, channels>>
        /\ seeking \in [Nodes -> [Targets -> Nat]]
        /\ None \in Targets /\ s \in Targets /\ s # None
    BY SeekingTyped DEF Led, DnsAnswers, ConnectFails, MeshInv
  <1>2. \A k \in Used, side \in Sides : Held(k, side, n) => Held(k, side, n)'
    BY <1>1 DEF Held, Used
  <1>3. CASE n # m
    <2>1. seeking'[n] = seeking[n]
      <3>1. CASE DnsAnswers(m, s)
        BY <1>1, <1>3, <3>1 DEF DnsAnswers
      <3>2. CASE ConnectFails(m, s)
        BY <1>1, <1>3, <3>2 DEF ConnectFails, Lookup
      <3>. QED BY <3>1, <3>2
    <2>. QED BY <1>1, <1>2, <2>1, TouchKept
  <1>4. CASE n = m /\ DnsAnswers(m, s)
    <2>1. s \in Listed /\ s # n
      BY <1>4 DEF DnsAnswers, Led
    <2>2. seeking'[n][s] = seeking[n][s] + 1 /\ seeking[n][s] \in Nat
      BY <1>1, <1>4, <2>1 DEF DnsAnswers
    <2>. QED BY <2>1, <2>2 DEF InTouch
  <1>5. CASE n = m /\ ConnectFails(m, s)
    <2>1. CASE channels[n] # {}
      BY <1>1, <2>1 DEF InTouch
    <2>2. CASE channels[n] = {}
      <3>1. seeking' = [[seeking EXCEPT ![n][None] = @ + 1] EXCEPT ![n][s] = @ - 1]
        BY <1>5, <2>2 DEF ConnectFails, Lookup
      <3>2. seeking'[n][None] = seeking[n][None] + 1 /\ seeking[n][None] \in Nat
        BY <1>1, <3>1
      <3>. QED BY <3>2 DEF InTouch
    <2>. QED BY <2>1, <2>2
  <1>. QED BY <1>3, <1>4, <1>5

\* A listed signpost is not where the one that looks for it is: the connection
\* is to another.
LEMMA ConnectInTouch ==
    ASSUME MeshInv, UNCHANGED deployment, NEW m \in Nodes, NEW s \in Nodes, Connect(m, s),
           NEW n, Led(n), InTouch(n)
    PROVE  InTouch(n)'
  <1>1. PICK r \in Reached(s), k \in Slots \ Used :
            /\ seeking' = [seeking EXCEPT ![m][s] = @ - 1]
            /\ conn' = [conn EXCEPT ![k] =
                   [at |-> [side \in Sides |-> IF side = "client" THEN m ELSE r],
                    up |-> TRUE, open |-> [side \in Sides |-> TRUE],
                    name |-> [side \in Sides |-> None],
                    inbox |-> [side \in Sides |-> IF side = "server" THEN <<Hi>> ELSE <<>>]]]
            /\ UNCHANGED channels
    BY DEF Connect
  <1>2. /\ n \in Nodes /\ conn \in [Slots -> Connection \cup {Free}]
        /\ seeking \in [Nodes -> [Targets -> Nat]] /\ s \in Targets
    BY SeekingTyped DEF Led, MeshInv, TypeOK
  <1>3. CASE n = m /\ s \in Listed
    <2>1. r # n
      BY <1>3 DEF Led
    <2>2. /\ conn'[k].at = [side \in Sides |-> IF side = "client" THEN m ELSE r]
          /\ conn'[k].open = [side \in Sides |-> TRUE] /\ conn'[k] # Free
      <3>1. /\ conn'[k] = [at |-> [side \in Sides |-> IF side = "client" THEN m ELSE r],
                           up |-> TRUE, open |-> [side \in Sides |-> TRUE],
                           name |-> [side \in Sides |-> None],
                           inbox |-> [side \in Sides |->
                                         IF side = "server" THEN <<Hi>> ELSE <<>>]]
        BY <1>1, <1>2
      <3>2. DOMAIN conn'[k] # DOMAIN Free
        BY <3>1 DEF Free
      <3>. QED BY <3>1, <3>2
    <2>3. Held(k, "client", n)' /\ "client" \in Sides /\ k \in Used'
      BY <1>3, <2>1, <2>2 DEF Held, Used, Sides, Other
    <2>. QED BY <2>3 DEF InTouch, Held
  <1>4. CASE ~(n = m /\ s \in Listed)
    <2>1. \A t \in Listed \cup {None} : seeking'[n][t] = seeking[n][t]
      <3>. SUFFICES ASSUME NEW t \in Listed \cup {None} PROVE seeking'[n][t] = seeking[n][t]
        OBVIOUS
      <3>1. t \in Targets /\ (n = m => t # s)
        BY <1>4, SeekingTyped, MeshAssumption DEF MeshInv, Targets
      <3>. QED BY <1>1, <1>2, <3>1
    <2>2. \A j \in Used : j \in Used' /\ conn'[j] = conn[j]
      BY <1>1, <1>2 DEF Used
    <2>3. \A j \in Used, side \in Sides : Held(j, side, n) => Held(j, side, n)'
      BY <2>2 DEF Held
    <2>. QED BY <1>1, <2>1, <2>3, TouchKept
  <1>. QED BY <1>3, <1>4

\* Only a connection of a signpost to itself is closed as it is greeted.
LEMMA NewChannelInTouch ==
    ASSUME MeshInv, UNCHANGED <<deployment, seeking, faults>>, NEW k \in Used,
           NEW side \in Sides, NEW greeting \in Seq(Line),
           conn[k].inbox[side] # <<>>, NewChannel(k, side, greeting),
           NEW n, Led(n), InTouch(n)
    PROVE  InTouch(n)'
  <1>1. /\ k \in Slots /\ conn[k] \in Connection /\ n \in Nodes /\ Other(side) \in Sides
        /\ conn \in [Slots -> Connection \cup {Free}]
        /\ channels \in [Nodes -> SUBSET (Slots \X Sides)]
    BY UsedTyped, Sides2 DEF MeshInv, TypeOK, Led
  <1>2. CASE conn[k].at["client"] = conn[k].at["server"]
    <2>1. conn' = [conn EXCEPT ![k] = Free] /\ UNCHANGED channels
      BY <1>2 DEF NewChannel
    <2>2. ASSUME NEW j \in Used, NEW end \in Sides, Held(j, end, n)
          PROVE  Held(j, end, n)'
      <3>1. j # k
        BY <1>2, <2>2 DEF Held, Sides, Other
      <3>2. j \in Used' /\ conn'[j] = conn[j]
        BY <1>1, <2>1, <3>1 DEF Used
      <3>. QED BY <2>2, <3>2 DEF Held
    <2>. QED BY <2>1, <2>2, TouchKept
  <1>3. CASE conn[k].at["client"] # conn[k].at["server"]
    <2>. DEFINE c == Sent(Meets(k, side), Other(side), Append(greeting, List))
    <2>1. /\ conn' = [conn EXCEPT ![k] = c]
          /\ channels' = [channels EXCEPT ![conn[k].at[side]] = @ \cup {<<k, side>>}]
      BY <1>3 DEF NewChannel
    <2>2. /\ Meets(k, side) \in Connection
          /\ Meets(k, side).at = conn[k].at /\ Meets(k, side).open = conn[k].open
      BY <1>1, ReadTyped DEF Meets, MeshInv, Connection, Targets, SameEnds
    <2>3. Append(greeting, List) \in Seq(Line)
      BY LinesTyped
    <2>4. c \in Connection /\ c.at = conn[k].at /\ c.open = conn[k].open
      BY <1>1, <2>2, <2>3, SentTyped DEF SameEnds
    <2>. HIDE DEF c
    <2>5. \A j \in Used, end \in Sides : Held(j, end, n) => Held(j, end, n)'
      BY <2>1, <2>4, HeldOnChange DEF MeshInv
    <2>6. channels[n] # {} => channels'[n] # {}
      BY <1>1, <2>1
    <2>. QED BY <2>5, <2>6, TouchKept
  <1>. QED BY <1>2, <1>3

LEMMA LinesInTouch ==
    ASSUME MeshInv, UNCHANGED channels, NEW k \in Used, NEW c \in Connection,
           c.at = conn[k].at, c.open = conn[k].open, conn' = [conn EXCEPT ![k] = c],
           NEW n, InTouch(n),
           \A s \in Listed \cup {None} : seeking[n][s] > 0 => seeking'[n][s] > 0
    PROVE  InTouch(n)'
  <1>1. \A j \in Used, side \in Sides : Held(j, side, n) => Held(j, side, n)'
    BY HeldOnChange DEF MeshInv
  <1>. QED BY <1>1, TouchKept

LEMMA ReceiveInTouch ==
    ASSUME MeshInv, UNCHANGED deployment, NEW k \in Slots, NEW side \in Sides, Receive(k, side),
           NEW n, Led(n), InTouch(n)
    PROVE  InTouch(n)'
  <1>1. CASE side = "server" /\ HearHi(k)
    <2>1. Hears(k, side, "hi_i_am") /\ NewChannel(k, side, <<Nice>>) /\ UNCHANGED <<seeking, faults>>
      BY <1>1 DEF HearHi
    <2>2. <<Nice>> \in Seq(Line)
      BY LinesTyped
    <2>. QED BY <2>1, <2>2, HeardTyped, NewChannelInTouch
  <1>2. CASE side = "client" /\ HearNice(k)
    <2>1. /\ Hears(k, side, "nice_to_meet_you_i_am") /\ NewChannel(k, side, <<>>)
          /\ UNCHANGED <<seeking, faults>>
      BY <1>2 DEF HearNice
    <2>2. <<>> \in Seq(Line)
      OBVIOUS
    <2>. QED BY <2>1, <2>2, HeardTyped, NewChannelInTouch
  <1>3. CASE HearList(k, side)
    <2>. DEFINE c == Sent(Read(k, side), Other(side), <<Signposts(Names(conn[k].at[side]))>>)
    <2>1. /\ Hears(k, side, "list_of_signposts") /\ conn' = [conn EXCEPT ![k] = c]
          /\ UNCHANGED <<channels, seeking>>
      BY <1>3 DEF HearList
    <2>2. <<Signposts(Names(conn[k].at[side]))>> \in Seq(Line)
      BY <2>1, HeardTyped, NamesTyped, LinesTyped
    <2>3. /\ k \in Used /\ Read(k, side) \in Connection /\ SameEnds(Read(k, side), conn[k])
          /\ Other(side) \in Sides
      BY <2>1, HeardTyped
    <2>4. c \in Connection /\ c.at = conn[k].at /\ c.open = conn[k].open
      BY <2>2, <2>3, SentTyped DEF SameEnds
    <2>. HIDE DEF c
    <2>. QED BY <2>1, <2>3, <2>4, LinesInTouch
  <1>4. CASE HearSignposts(k, side)
    <2>1. /\ Hears(k, side, "signposts") /\ conn' = [conn EXCEPT ![k] = Read(k, side)]
          /\ UNCHANGED channels
      BY <1>4 DEF HearSignposts
    <2>2. PICK unknown : seeking' = [seeking EXCEPT ![conn[k].at[side]] = [s \in Targets |->
                             IF s \in unknown THEN @[s] + 1 ELSE @[s]]]
      BY <1>4 DEF HearSignposts
    <2>3. \A s \in Listed \cup {None} : seeking[n][s] > 0 => seeking'[n][s] > 0
      <3>. SUFFICES ASSUME NEW s \in Listed \cup {None}, seeking[n][s] > 0
                    PROVE  seeking'[n][s] > 0
        OBVIOUS
      <3>1. s \in Targets
        BY MeshAssumption DEF Targets
      <3>2. n \in Nodes /\ seeking \in [Nodes -> [Targets -> Nat]]
        BY SeekingTyped DEF Led, MeshInv
      <3>. QED BY <2>2, <3>1, <3>2
    <2>4. /\ k \in Used /\ Read(k, side) \in Connection /\ SameEnds(Read(k, side), conn[k])
      BY <2>1, HeardTyped
    <2>. QED BY <2>1, <2>3, <2>4, LinesInTouch DEF SameEnds
  <1>. QED BY <1>1, <1>2, <1>3, <1>4 DEF Receive

LEMMA FaultInTouch ==
    ASSUME MeshInv, UNCHANGED deployment, NEW k \in Slots, NEW side \in Sides,
           LoseLine(k, side) \/ Break(k), NEW n, Led(n), InTouch(n)
    PROVE  InTouch(n)'
  <1>1. k \in Used /\ UNCHANGED <<channels, seeking>>
    BY DEF LoseLine, Break
  <1>2. CASE LoseLine(k, side)
    BY <1>1, <1>2, ReadTyped, LinesInTouch DEF LoseLine, MeshInv, SameEnds
  <1>3. CASE Break(k)
    <2>. DEFINE c == [conn[k] EXCEPT !.up = FALSE]
    <2>1. c \in Connection /\ c.at = conn[k].at /\ c.open = conn[k].open
      BY <1>1, UsedTyped DEF Connection, MeshInv
    <2>. QED BY <1>1, <1>3, <2>1, LinesInTouch DEF Break
  <1>. QED BY <1>2, <1>3

\* Who hears of the end of its last channel looks a signpost up; the other end
\* holds the connection on until it hears of it too.
LEMMA UnbindInTouch ==
    ASSUME MeshInv, UNCHANGED deployment, NEW k \in Slots, NEW side \in Sides, Unbind(k, side),
           NEW n, Led(n), InTouch(n)
    PROVE  InTouch(n)'
  <1>. DEFINE m == conn[k].at[side]
              left == {e \in channels[m] : NameOf(e) # conn[k].name[side]}
              c == Unbound(k, side)
  <1>1. /\ k \in Used /\ channels' = [channels EXCEPT ![m] = left]
        /\ seeking' = IF left = {} THEN Lookup(m) ELSE seeking
        /\ conn' = [conn EXCEPT ![k] = c]
    BY DEF Unbind, Breaks
  <1>2. /\ conn[k] \in Connection /\ m \in Nodes /\ n \in Nodes /\ Other(side) \in Sides
        /\ seeking \in [Nodes -> [Targets -> Nat]] /\ None \in Targets
        /\ channels \in [Nodes -> SUBSET (Slots \X Sides)]
        /\ conn \in [Slots -> Connection \cup {Free}]
    BY <1>1, UsedTyped, Sides2, SeekingTyped DEF MeshInv, Connection, TypeOK, Led
  <1>3. ASSUME conn[k].open[Other(side)]
        PROVE  /\ c \in Connection /\ c.at = conn[k].at
               /\ \A end \in Sides \ {side} : c.open[end] = conn[k].open[end]
    <2>1. c = [conn[k] EXCEPT !.open[side] = FALSE, !.inbox[side] = <<>>]
      BY <1>3 DEF Unbound
    <2>2. conn[k] \in Connection /\ side \in Sides
      BY <1>2
    <2>. HIDE DEF c
    <2>. QED BY ONLY <2>1, <2>2, HalfClosed
  <1>4. CASE n = m /\ left # {}
    BY <1>1, <1>2, <1>4 DEF InTouch
  <1>5. CASE n = m /\ left = {}
    <2>1. seeking'[n][None] = seeking[n][None] + 1 /\ seeking[n][None] \in Nat
      BY <1>1, <1>2, <1>5 DEF Lookup
    <2>. QED BY <2>1 DEF InTouch
  <1>6. CASE n # m
    <2>1. channels'[n] = channels[n] /\ seeking'[n] = seeking[n]
      BY <1>1, <1>2, <1>6 DEF Lookup
    <2>2. ASSUME NEW j \in Used, NEW end \in Sides, Held(j, end, n)
          PROVE  Held(j, end, n)'
      <3>1. CASE j # k
        <4>1. j \in Used' /\ conn'[j] = conn[j]
          BY <1>1, <1>2, <3>1 DEF Used
        <4>. QED BY <2>2, <4>1 DEF Held
      <3>2. CASE j = k
        <4>1. end \in Sides \ {side} /\ end = Other(side) /\ conn[k].open[Other(side)]
          BY <1>6, <2>2, <3>2 DEF Held, Sides, Other
        <4>2. c \in Connection /\ c.at = conn[k].at /\ c.open[end] = conn[k].open[end]
          BY <1>3, <4>1
        <4>. HIDE DEF c
        <4>3. conn'[k] = c /\ k \in Used'
          BY <1>1, <1>2, <4>2, FreeIsNone DEF Used
        <4>. QED BY <2>2, <3>2, <4>2, <4>3 DEF Held
      <3>. QED BY <3>1, <3>2
    <2>. QED BY <2>1, <2>2, TouchKept
  <1>. QED BY <1>4, <1>5, <1>6

LEMMA TouchInit == Init => TouchInv
  <1>. SUFFICES ASSUME Init PROVE TouchInv
    OBVIOUS
  <1>1. \A n \in Nodes \ {Home} : seeking[n][None] = 1
    BY DEF Init, Targets
  <1>. QED BY <1>1, MeshInit DEF TouchInv, NeverAlone, InTouch

LEMMA TouchStep == TouchInv /\ [Next]_vars => TouchInv'
  <1>. SUFFICES ASSUME TouchInv, [Next]_vars PROVE NeverAlone'
    BY MeshStep DEF TouchInv
  <1>1. CASE UNCHANGED vars
    BY <1>1 DEF vars, mesh, TouchInv, NeverAlone, InTouch, Reached, Used
  <1>2. CASE Step /\ UNCHANGED deployment
    <2>1. \A s : Reached(s)' = Reached(s)
      BY <1>2 DEF Reached
    <2>. SUFFICES ASSUME NEW n, Led(n), InTouch(n) PROVE InTouch(n)'
      BY <2>1 DEF NeverAlone, Led, TouchInv
    <2>2. ASSUME NEW m \in Nodes, NEW s \in Nodes,
                 DnsAnswers(m, s) \/ Connect(m, s) \/ ConnectFails(m, s)
          PROVE  InTouch(n)'
      BY <1>2, <2>2, SeekingInTouch, ConnectInTouch DEF TouchInv
    <2>3. ASSUME NEW k \in Slots, NEW side \in Sides,
                 Receive(k, side) \/ LoseLine(k, side) \/ Unbind(k, side) \/ Break(k)
          PROVE  InTouch(n)'
      BY <1>2, <2>3, ReceiveInTouch, FaultInTouch, UnbindInTouch DEF TouchInv
    <2>4. "client" \in Sides
      BY DEF Sides
    <2>. QED BY <1>2, <2>2, <2>3, <2>4 DEF Step
  <1>. QED BY <1>1, <1>2 DEF Next

\* However many connections break, are refused or lose a line, a signpost that
\* the listed names lead to another is never without a channel, a search that
\* goes on, and a connection: nothing but the wait for one of them keeps it away.
THEOREM NoneLeftAlone == Spec => []NeverAlone
  <1>1. TouchInv => NeverAlone
    BY DEF TouchInv
  <1>. QED BY <1>1, TouchInit, TouchStep, PTL DEF Spec

-----------------------------------------------------------------------------
(* Who is told of whom.                                                    *)

Items(q) == {q[i] : i \in DOMAIN q}
Waiting(k, side) == Items(conn[k].inbox[side])

\* m has connected to n with k.
From(k, m, n) == k \in Used /\ conn[k].at["client"] = m /\ conn[k].at["server"] = n

\* m has connected to n or is about to.
Linked(m, n) == seeking[m][n] > 0 \/ \E k \in Used : From(k, m, n)

\* Each greeting is under way or has made a channel.
Standing ==
    \A k \in Used :
        /\ conn[k].up /\ conn[k].at["client"] # conn[k].at["server"]
        /\ Hi \in Waiting(k, "server") \/ <<k, "server">> \in channels[conn[k].at["server"]]
        /\ <<k, "server">> \in channels[conn[k].at["server"]] =>
               Nice \in Waiting(k, "client") \/ <<k, "client">> \in channels[conn[k].at["client"]]

NoneToSelf == \A n \in Nodes : seeking[n][n] = 0

Joined == \A n \in Nodes \ {Home} : seeking[n][None] > 0 \/ Linked(n, Home)

\* The list that n asks the domain's signpost for is still to be made.
WillAsk(k) ==
    Hi \in Waiting(k, "server") \/ Nice \in Waiting(k, "client") \/ List \in Waiting(k, "server")
Asking(n) ==
    \/ seeking[n][None] > 0 \/ seeking[n][Home] > 0
    \/ \E k \in Used : From(k, n, Home) /\ WillAsk(k)

\* It is made, and m is in it.
Told(n, m) ==
    \E k \in Used : /\ From(k, n, Home)
                    /\ \E d \in Waiting(k, "client") : d.kind = "signposts" /\ m \in d.names

\* Of any two that join, one is connected to the other, or will be told of it:
\* the list that is made last has both.
Paired ==
    \A m, n \in Nodes \ {Home} : m # n =>
        Linked(m, n) \/ Linked(n, m) \/ Asking(m) \/ Asking(n) \/ Told(m, n) \/ Told(n, m)

Complete == Standing /\ NoneToSelf /\ Joined /\ Paired

AllReached == \A n \in Nodes : Reached(n) = {n}

CompleteInv == MeshInv /\ (faults = 0 /\ AllReached => Complete)

LEMMA ItemsConcat ==
    ASSUME NEW q \in Seq(Line), NEW r \in Seq(Line)
    PROVE  Items(q) \subseteq Items(q \o r) /\ Items(r) \subseteq Items(q \o r)
  <1>1. /\ DOMAIN q = 1 .. Len(q) /\ DOMAIN r = 1 .. Len(r) /\ Len(q) \in Nat /\ Len(r) \in Nat
        /\ DOMAIN (q \o r) = 1 .. Len(q) + Len(r)
        /\ \A i \in 1 .. Len(q) : (q \o r)[i] = q[i]
    OBVIOUS
  <1>2. \A i \in 1 .. Len(r) : Len(q) + i \in DOMAIN (q \o r) /\ (q \o r)[Len(q) + i] = r[i]
    BY <1>1
  <1>3. \A i \in DOMAIN q : i \in DOMAIN (q \o r)
    BY <1>1
  <1>. QED BY <1>1, <1>2, <1>3 DEF Items

LEMMA ItemsTail ==
    ASSUME NEW q \in Seq(Line), q # <<>>
    PROVE  \A d \in Items(q) : d \in Items(Tail(q)) \/ d = Head(q)
  <1>1. /\ DOMAIN Tail(q) = 1 .. Len(q) - 1 /\ DOMAIN q = 1 .. Len(q) /\ Len(q) \in Nat
        /\ Head(q) = q[1] /\ \A i \in 1 .. Len(q) - 1 : Tail(q)[i] = q[i + 1]
    OBVIOUS
  <1>2. ASSUME NEW i \in DOMAIN q, i # 1 PROVE q[i] \in Items(Tail(q))
    <2>1. i - 1 \in DOMAIN Tail(q) /\ Tail(q)[i - 1] = q[i]
      BY <1>1, <1>2
    <2>. QED BY <2>1 DEF Items
  <1>. QED BY <1>1, <1>2 DEF Items

\* What hearing h at one end of a connection leaves.
Spoken(k, side, h) ==
    /\ k \in Used /\ side \in Sides /\ Used' = Used
    /\ \A j \in Used : conn'[j].at = conn[j].at /\ conn'[j].up = conn[j].up
    /\ \A j \in Used, s \in Sides : \A d \in Waiting(j, s) :
           d \in Waiting(j, s)' \/ (j = k /\ s = side /\ d = h)
    /\ \A n \in Nodes : channels[n] \subseteq channels'[n]
                        /\ channels'[n] \subseteq channels[n] \cup {<<k, side>>}
    /\ \A n \in Nodes, s \in Targets : seeking[n][s] > 0 => seeking'[n][s] > 0
    /\ \A n \in Nodes : seeking[n][n] = 0 => seeking'[n][n] = 0

\* Hearing a line and answering with some.
LEMMA HearAnswer ==
    ASSUME MeshInv, Standing, NEW k \in Used, NEW side \in Sides, conn[k].inbox[side] # <<>>,
           NEW c \in Connection, NEW lines \in Seq(Line),
           c.at = conn[k].at, c.up = conn[k].up,
           c.inbox = [conn[k].inbox EXCEPT ![side] = Tail(@)],
           conn' = [conn EXCEPT ![k] = Sent(c, Other(side), lines)]
    PROVE  /\ Used' = Used
           /\ \A j \in Used : conn'[j].at = conn[j].at /\ conn'[j].up = conn[j].up
           /\ \A j \in Used, s \in Sides : \A d \in Waiting(j, s) :
                  d \in Waiting(j, s)' \/ (j = k /\ s = side /\ d = Head(conn[k].inbox[side]))
           /\ \A d \in Items(lines) : d \in Waiting(k, Other(side))'
  <1>. DEFINE e == Sent(c, Other(side), lines)
              other == Other(side)
  <1>1. /\ k \in Slots /\ conn[k] \in Connection /\ other \in Sides /\ other # side
        /\ conn[k].inbox \in [Sides -> Seq(Line)] /\ c.inbox \in [Sides -> Seq(Line)]
        /\ \A s \in Sides : s = side \/ s = other
    BY UsedTyped, Sides2 DEF MeshInv, Connection, Sides, Other
  <1>2. conn[k].up
    BY DEF Standing
  <1>3. /\ e \in Connection /\ e.at = conn[k].at /\ e.up = conn[k].up
        /\ e.inbox[side] = Tail(conn[k].inbox[side])
        /\ e.inbox[other] = conn[k].inbox[other] \o lines
    <2>1. e = [c EXCEPT !.inbox[other] = @ \o lines]
      BY <1>2 DEF Sent
    <2>2. e \in Connection
      BY <1>1, SentTyped
    <2>3. e.at = c.at /\ e.up = c.up /\ e.inbox = [c.inbox EXCEPT ![other] = @ \o lines]
      BY <2>1 DEF Connection
    <2>. QED BY <1>1, <2>2, <2>3
  <1>. HIDE DEF e
  <1>4. conn'[k] = e /\ \A j \in Slots \ {k} : conn'[j] = conn[j]
    BY <1>1 DEF MeshInv, TypeOK, e
  <1>5. Used' = Used
    BY <1>1, <1>3, <1>4, FreeIsNone DEF Used
  <1>6. /\ \A d \in Items(conn[k].inbox[side]) :
               d \in Items(e.inbox[side]) \/ d = Head(conn[k].inbox[side])
        /\ Items(conn[k].inbox[other]) \subseteq Items(e.inbox[other])
        /\ Items(lines) \subseteq Items(e.inbox[other])
    BY <1>1, <1>3, ItemsTail, ItemsConcat
  <1>7. \A j \in Used : j \in Slots
    BY DEF Used
  <1>8. ASSUME NEW j \in Used, NEW s \in Sides, NEW d \in Waiting(j, s)
        PROVE  d \in Waiting(j, s)' \/ (j = k /\ s = side /\ d = Head(conn[k].inbox[side]))
    BY <1>1, <1>4, <1>6, <1>7, <1>8 DEF Waiting
  <1>9. \A d \in Items(lines) : d \in Waiting(k, other)'
    BY <1>4, <1>6 DEF Waiting
  <1>10. \A j \in Used : conn'[j].at = conn[j].at /\ conn'[j].up = conn[j].up
    BY <1>3, <1>4, <1>7
  <1>. QED BY <1>5, <1>8, <1>9, <1>10

\* What it leaves of who is connected to whom.
LEMMA SpokenLinks ==
    ASSUME MeshInv, NEW k, NEW side, NEW h, Spoken(k, side, h)
    PROVE  /\ \A j, m, n : From(j, m, n)' <=> From(j, m, n)
           /\ \A m, n \in Nodes : Linked(m, n) => Linked(m, n)'
           /\ Joined => Joined'
           /\ NoneToSelf => NoneToSelf'
  <1>1. \A j, m, n : From(j, m, n)' <=> From(j, m, n)
    BY DEF Spoken, From
  <1>2. \A m, n \in Nodes : Linked(m, n) => Linked(m, n)'
    BY <1>1, SeekingTyped DEF Linked, Spoken, MeshInv
  <1>3. Joined => Joined'
    BY <1>2, SeekingTyped, MeshAssumption DEF Joined, Spoken, MeshInv
  <1>4. NoneToSelf => NoneToSelf'
    BY DEF NoneToSelf, Spoken
  <1>. QED BY <1>1, <1>2, <1>3, <1>4

\* Greetings and requests stay, but for the one that is heard.
LEMMA SpokenStanding ==
    ASSUME MeshInv, Standing, NEW k, NEW side, NEW h, Spoken(k, side, h),
           side = "server" /\ h = Hi => <<k, side>> \in channels'[conn[k].at[side]],
           <<k, "server">> \in channels'[conn[k].at["server"]] =>
               Nice \in Waiting(k, "client")' \/ <<k, "client">> \in channels'[conn[k].at["client"]]
    PROVE  Standing'
  <1>. SUFFICES ASSUME NEW j \in Used
                PROVE  /\ conn'[j].up /\ conn'[j].at["client"] # conn'[j].at["server"]
                       /\ Hi \in Waiting(j, "server")'
                          \/ <<j, "server">> \in channels'[conn'[j].at["server"]]
                       /\ <<j, "server">> \in channels'[conn'[j].at["server"]] =>
                             Nice \in Waiting(j, "client")'
                             \/ <<j, "client">> \in channels'[conn'[j].at["client"]]
    BY DEF Standing, Spoken
  <1>1. /\ conn'[j].at = conn[j].at /\ conn'[j].up = conn[j].up
        /\ conn[j].at["server"] \in Nodes /\ conn[j].at["client"] \in Nodes
        /\ "server" \in Sides /\ "client" \in Sides
    BY UsedTyped DEF Spoken, MeshInv, Connection, Sides
  <1>2. Hi \in Waiting(j, "server")' \/ <<j, "server">> \in channels'[conn[j].at["server"]]
    BY <1>1 DEF Standing, Spoken
  <1>3. CASE j = k
    BY <1>1, <1>2, <1>3 DEF Standing
  <1>4. CASE j # k
    <2>1. <<j, "server">> \in channels'[conn[j].at["server"]]
              => <<j, "server">> \in channels[conn[j].at["server"]]
      BY <1>1, <1>4 DEF Spoken
    <2>. QED BY <1>1, <1>2, <1>4, <2>1 DEF Standing, Spoken
  <1>. QED BY <1>3, <1>4

LEMMA SpokenAsking ==
    ASSUME MeshInv, NEW k, NEW side, NEW h, Spoken(k, side, h), NEW n \in Nodes, Asking(n),
           From(k, n, Home) /\ WillAsk(k) => WillAsk(k)'
    PROVE  Asking(n)'
  <1>1. \A j \in Used : From(j, n, Home)' <=> From(j, n, Home)
    BY SpokenLinks
  <1>2. \A j \in Used : From(j, n, Home) /\ WillAsk(j) => WillAsk(j)'
    BY DEF Spoken, WillAsk, Sides
  <1>3. Used' = Used
    BY DEF Spoken
  <1>4. /\ seeking[n][None] > 0 => seeking'[n][None] > 0
        /\ seeking[n][Home] > 0 => seeking'[n][Home] > 0
    BY SeekingTyped, MeshAssumption DEF Spoken, MeshInv
  <1>. QED BY <1>1, <1>2, <1>3, <1>4 DEF Asking

LEMMA SpokenTold ==
    ASSUME MeshInv, NEW k, NEW side, NEW h, Spoken(k, side, h),
           NEW n \in Nodes, NEW m \in Nodes, Told(n, m),
           ~(side = "client" /\ From(k, n, Home) /\ h.kind = "signposts" /\ m \in h.names)
    PROVE  Told(n, m)'
  <1>1. PICK j \in Used : /\ From(j, n, Home)
                          /\ \E d \in Waiting(j, "client") : d.kind = "signposts" /\ m \in d.names
    BY DEF Told
  <1>2. PICK d \in Waiting(j, "client") : d.kind = "signposts" /\ m \in d.names
    BY <1>1
  <1>3. From(j, n, Home)' /\ j \in Used'
    BY <1>1, SpokenLinks DEF Spoken
  <1>4. d \in Waiting(j, "client")' \/ (j = k /\ side = "client" /\ d = h)
    BY <1>2 DEF Spoken, Sides
  <1>5. d \in Waiting(j, "client")'
    BY <1>1, <1>2, <1>4
  <1>. QED BY <1>2, <1>3, <1>5 DEF Told

\* Greetings.
LEMMA GreetingComplete ==
    ASSUME MeshInv, Complete, UNCHANGED deployment, NEW k \in Slots, NEW side \in Sides,
           (side = "server" /\ HearHi(k)) \/ (side = "client" /\ HearNice(k))
    PROVE  Complete'
  <1>. DEFINE h == Head(conn[k].inbox[side])
              n == conn[k].at[side]
              greeting == IF side = "server" THEN <<Nice>> ELSE <<>>
  <1>1. /\ k \in Used /\ conn[k].inbox[side] # <<>> /\ UNCHANGED seeking
        /\ h.kind \in {"hi_i_am", "nice_to_meet_you_i_am"}
        /\ NewChannel(k, side, greeting)
    BY DEF HearHi, HearNice, Hears
  <1>2. /\ conn' = [conn EXCEPT ![k] = Sent(Meets(k, side), Other(side), Append(greeting, List))]
        /\ channels' = [channels EXCEPT ![n] = @ \cup {<<k, side>>}]
    BY <1>1 DEF NewChannel, Complete, Standing
  <1>3. /\ Meets(k, side) \in Connection
        /\ Meets(k, side).at = conn[k].at /\ Meets(k, side).up = conn[k].up
        /\ Meets(k, side).inbox = [conn[k].inbox EXCEPT ![side] = Tail(@)]
    <2>1. /\ conn[k] \in Connection /\ Read(k, side) \in Connection
          /\ conn[k].at[Other(side)] \in Targets
      BY <1>1, UsedTyped, ReadTyped, Sides2 DEF MeshInv, Connection, Targets
    <2>2. /\ Read(k, side).at = conn[k].at /\ Read(k, side).up = conn[k].up
          /\ Read(k, side).inbox = [conn[k].inbox EXCEPT ![side] = Tail(@)]
      BY <2>1 DEF Read, Connection
    <2>3. Meets(k, side) = [Read(k, side) EXCEPT !.name[side] = conn[k].at[Other(side)]]
      BY DEF Meets
    <2>4. [Read(k, side).name EXCEPT ![side] = conn[k].at[Other(side)]] \in [Sides -> Targets]
      BY <2>1 DEF Connection
    <2>5. Meets(k, side) \in Connection
      BY <2>1, <2>3, <2>4 DEF Connection
    <2>6. /\ Meets(k, side).at = Read(k, side).at /\ Meets(k, side).up = Read(k, side).up
          /\ Meets(k, side).inbox = Read(k, side).inbox
      BY <2>1, <2>3 DEF Connection
    <2>. QED BY <2>2, <2>5, <2>6
  <1>4. /\ Append(greeting, List) \in Seq(Line) /\ List \in Items(Append(greeting, List))
        /\ side = "server" => Nice \in Items(Append(greeting, List))
    <2>1. /\ greeting \in Seq(Line) /\ (side = "server" => Len(greeting) = 1 /\ greeting[1] = Nice)
      BY LinesTyped
    <2>. HIDE DEF greeting
    <2>2. /\ Append(greeting, List) \in Seq(Line) /\ Len(greeting) \in Nat
          /\ DOMAIN Append(greeting, List) = 1 .. Len(greeting) + 1
          /\ Append(greeting, List)[Len(greeting) + 1] = List
          /\ \A i \in 1 .. Len(greeting) : Append(greeting, List)[i] = greeting[i]
      BY <2>1, LinesTyped
    <2>3. List \in Items(Append(greeting, List))
      BY <2>2 DEF Items
    <2>4. side = "server" => Nice \in Items(Append(greeting, List))
      BY <2>1, <2>2 DEF Items
    <2>. QED BY <2>2, <2>3, <2>4
  <1>. HIDE DEF greeting
  <1>5. Standing /\ NoneToSelf /\ Joined /\ Paired
    BY DEF Complete
  <1>6. /\ Used' = Used
        /\ \A j \in Used : conn'[j].at = conn[j].at /\ conn'[j].up = conn[j].up
        /\ \A j \in Used, s \in Sides : \A d \in Waiting(j, s) :
               d \in Waiting(j, s)' \/ (j = k /\ s = side /\ d = h)
        /\ \A d \in Items(Append(greeting, List)) : d \in Waiting(k, Other(side))'
    BY <1>1, <1>2, <1>3, <1>4, <1>5, HearAnswer
  <1>. HIDE DEF h
  <1>7. \A x \in Nodes : /\ channels[x] \subseteq channels'[x]
                         /\ channels'[x] \subseteq channels[x] \cup {<<k, side>>}
    BY <1>2 DEF MeshInv, TypeOK
  <1>8. n \in Nodes /\ <<k, side>> \in channels'[n]
    <2>1. n \in Nodes
      BY <1>1, UsedTyped DEF MeshInv, Connection
    <2>. QED BY <1>2, <2>1 DEF MeshInv, TypeOK
  <1>9. Spoken(k, side, h)
    BY <1>1, <1>6, <1>7 DEF Spoken
  <1>10. List \in Waiting(k, Other(side))' /\ (side = "server" => Nice \in Waiting(k, Other(side))')
    BY <1>4, <1>6
  <1>11. WillAsk(k)'
    BY <1>10 DEF WillAsk, Sides, Other
  <1>12. Standing'
    BY <1>5, <1>8, <1>9, <1>10, SpokenStanding DEF Sides, Other
  <1>13. /\ NoneToSelf' /\ Joined'
         /\ \A x, y \in Nodes : Linked(x, y) => Linked(x, y)'
    BY <1>5, <1>9, SpokenLinks
  <1>14. \A x \in Nodes : Asking(x) => Asking(x)'
    BY <1>9, <1>11, SpokenAsking
  <1>15. \A x, y \in Nodes : Told(x, y) => Told(x, y)'
    <2>1. h.kind # "signposts"
      BY <1>1 DEF h
    <2>. QED BY <1>9, <2>1, SpokenTold
  <1>16. Paired'
    BY <1>5, <1>13, <1>14, <1>15 DEF Paired
  <1>. QED BY <1>12, <1>13, <1>16 DEF Complete

LEMMA LineKinds == /\ Hi.kind = "hi_i_am" /\ Nice.kind = "nice_to_meet_you_i_am"
                   /\ List.kind = "list_of_signposts"
                   /\ \A S : Signposts(S).kind = "signposts" /\ Signposts(S).names = S
  BY DEF Hi, Nice, List, Signposts

\* What has joined the domain's signpost, and is not about to ask for the list,
\* is in it.
LEMMA InTheList ==
    ASSUME MeshInv, Complete, NEW m \in Nodes \ {Home}, ~Asking(m)
    PROVE  m \in Names(Home)
  <1>1. PICK j \in Used : From(j, m, Home)
    BY DEF Complete, Joined, Linked, Asking
  <1>2. Hi \notin Waiting(j, "server")
    BY <1>1 DEF Asking, WillAsk
  <1>3. <<j, "server">> \in channels[Home]
    BY <1>1, <1>2 DEF Complete, Standing, From
  <1>4. NameOf(<<j, "server">>) = conn[j].at["client"]
    BY <1>3, MeshAssumption DEF MeshInv, ChannelsLive, Other
  <1>. QED BY <1>1, <1>3, <1>4 DEF Names, From

\* The list.
LEMMA ListComplete ==
    ASSUME MeshInv, Complete, UNCHANGED deployment, NEW k \in Slots, NEW side \in Sides,
           HearList(k, side)
    PROVE  Complete'
  <1>. DEFINE h == Head(conn[k].inbox[side])
              n == conn[k].at[side]
              lines == <<Signposts(Names(n))>>
  <1>1. /\ k \in Used /\ conn[k].inbox[side] # <<>> /\ h.kind = "list_of_signposts"
        /\ conn' = [conn EXCEPT ![k] = Sent(Read(k, side), Other(side), lines)]
        /\ UNCHANGED <<channels, seeking>>
    BY DEF HearList, Hears
  <1>2. n \in Nodes
    BY <1>1, UsedTyped DEF MeshInv, Connection
  <1>3. lines \in Seq(Line) /\ Signposts(Names(n)) \in Items(lines)
    <2>1. lines \in Seq(Line)
      BY <1>2, NamesTyped, LinesTyped
    <2>2. 1 \in DOMAIN lines /\ lines[1] = Signposts(Names(n))
      OBVIOUS
    <2>. HIDE DEF lines
    <2>. QED BY <2>1, <2>2 DEF Items
  <1>. HIDE DEF lines
  <1>4. /\ Read(k, side) \in Connection
        /\ Read(k, side).at = conn[k].at /\ Read(k, side).up = conn[k].up
        /\ Read(k, side).inbox = [conn[k].inbox EXCEPT ![side] = Tail(@)]
    <2>1. conn[k] \in Connection /\ Read(k, side) \in Connection
      BY <1>1, UsedTyped, ReadTyped DEF MeshInv
    <2>. QED BY <2>1 DEF Read, Connection
  <1>5. Standing /\ NoneToSelf /\ Joined /\ Paired
    BY DEF Complete
  <1>6. /\ Used' = Used
        /\ \A j \in Used : conn'[j].at = conn[j].at /\ conn'[j].up = conn[j].up
        /\ \A j \in Used, s \in Sides : \A d \in Waiting(j, s) :
               d \in Waiting(j, s)' \/ (j = k /\ s = side /\ d = h)
        /\ \A d \in Items(lines) : d \in Waiting(k, Other(side))'
    BY <1>1, <1>3, <1>4, <1>5, HearAnswer
  <1>7. h # Hi /\ h # Nice /\ h.kind # "signposts"
    BY <1>1, LineKinds
  <1>. HIDE DEF h
  <1>8. Spoken(k, side, h)
    BY <1>1, <1>6 DEF Spoken
  <1>9. Standing'
    <2>1. conn[k].at["server"] \in Nodes /\ "client" \in Sides /\ "server" \in Sides
      BY <1>1, UsedTyped DEF MeshInv, Connection, Sides
    <2>2. <<k, "server">> \in channels'[conn[k].at["server"]] =>
              Nice \in Waiting(k, "client")' \/ <<k, "client">> \in channels'[conn[k].at["client"]]
      BY <1>1, <1>5, <1>6, <1>7, <2>1 DEF Standing
    <2>. QED BY <1>5, <1>7, <1>8, <2>2, SpokenStanding
  <1>10. /\ NoneToSelf' /\ Joined'
         /\ \A x, y \in Nodes : Linked(x, y) => Linked(x, y)'
         /\ \A j, x, y : From(j, x, y)' <=> From(j, x, y)
    BY <1>5, <1>8, SpokenLinks
  <1>11. \A x, y \in Nodes : Told(x, y) => Told(x, y)'
    BY <1>7, <1>8, SpokenTold
  <1>12. ASSUME NEW x \in Nodes, Asking(x), ~Asking(x)'
         PROVE  From(k, x, Home) /\ side = "server"
    <2>1. From(k, x, Home) /\ WillAsk(k) /\ ~WillAsk(k)'
      BY <1>8, <1>12, SpokenAsking
    <2>2. side = "server"
      <3>. SUFFICES ASSUME side # "server" PROVE WillAsk(k)'
        BY <2>1
      <3>1. \A d \in Waiting(k, "server") : d \in Waiting(k, "server")'
        BY <1>1, <1>6 DEF Sides
      <3>2. Nice \in Waiting(k, "client") => Nice \in Waiting(k, "client")'
        BY <1>1, <1>6, <1>7 DEF Sides
      <3>. QED BY <2>1, <3>1, <3>2 DEF WillAsk
    <2>. QED BY <2>1, <2>2
  <1>13. ASSUME NEW x \in Nodes, Asking(x), ~Asking(x)',
                NEW y \in Nodes \ {Home}, x # y, ~Asking(y)'
         PROVE  Told(x, y)'
    <2>1. From(k, x, Home) /\ side = "server" /\ n = Home
      BY <1>12, <1>13 DEF From
    <2>2. ~Asking(y)
      <3>. SUFFICES ASSUME Asking(y) PROVE FALSE
        OBVIOUS
      <3>1. From(k, y, Home)
        BY <1>12, <1>13
      <3>. QED BY <1>13, <2>1, <3>1 DEF From
    <2>3. y \in Names(n)
      BY <2>1, <2>2, InTheList
    <2>4. Signposts(Names(n)) \in Waiting(k, "client")'
      BY <1>3, <1>6, <2>1 DEF Other
    <2>5. Signposts(Names(n)).kind = "signposts" /\ y \in Signposts(Names(n)).names
      BY <2>3, LineKinds
    <2>6. From(k, x, Home)' /\ k \in Used'
      BY <1>1, <1>6, <1>10, <2>1
    <2>. QED BY <2>4, <2>5, <2>6 DEF Told
  <1>14. Paired'
    BY <1>5, <1>10, <1>11, <1>13 DEF Paired
  <1>. QED BY <1>9, <1>10, <1>14 DEF Complete

\* The answer.
LEMMA SignpostsComplete ==
    ASSUME MeshInv, Complete, UNCHANGED deployment, NEW k \in Slots, NEW side \in Sides,
           HearSignposts(k, side)
    PROVE  Complete'
  <1>. DEFINE h == Head(conn[k].inbox[side])
              n == conn[k].at[side]
              unknown == h.names \ (Names(n) \cup {n})
  <1>1. /\ k \in Used /\ conn[k].inbox[side] # <<>> /\ h.kind = "signposts"
        /\ conn' = [conn EXCEPT ![k] = Read(k, side)]
        /\ seeking' = [seeking EXCEPT ![n] = [s \in Targets |->
                          IF s \in unknown THEN @[s] + 1 ELSE @[s]]]
        /\ UNCHANGED channels
    BY DEF HearSignposts, Hears
  <1>2. n \in Nodes /\ n \in Targets
    BY <1>1, UsedTyped DEF MeshInv, Connection, Targets
  <1>3. Standing /\ NoneToSelf /\ Joined /\ Paired
    BY DEF Complete
  <1>4. /\ Read(k, side) \in Connection
        /\ Read(k, side).at = conn[k].at /\ Read(k, side).up = conn[k].up
        /\ Read(k, side).inbox = [conn[k].inbox EXCEPT ![side] = Tail(@)]
    <2>1. conn[k] \in Connection /\ Read(k, side) \in Connection
      BY <1>1, UsedTyped, ReadTyped DEF MeshInv
    <2>. QED BY <2>1 DEF Read, Connection
  <1>5. conn' = [conn EXCEPT ![k] = Sent(Read(k, side), Other(side), <<>>)]
    <2>1. Sent(Read(k, side), Other(side), <<>>) = Read(k, side)
      <3>. DEFINE c == Read(k, side)
      <3>1. c.inbox \in [Sides -> Seq(Line)] /\ c.inbox[Other(side)] \o <<>> = c.inbox[Other(side)]
        <4>1. \A q \in Seq(Line) : q \o <<>> = q
          OBVIOUS
        <4>2. c.inbox \in [Sides -> Seq(Line)] /\ Other(side) \in Sides
          BY <1>4, Sides2 DEF Connection
        <4>. HIDE DEF c
        <4>. QED BY <4>1, <4>2
      <3>2. c = [c EXCEPT !.inbox[Other(side)] = @ \o <<>>]
        <4>1. [c.inbox EXCEPT ![Other(side)] = @ \o <<>>] = c.inbox
          BY <3>1
        <4>. HIDE DEF c
        <4>. QED BY <1>4, <4>1 DEF Connection, c
      <3>. HIDE DEF c
      <3>3. Sent(c, Other(side), <<>>) = c
        BY <3>2 DEF Sent
      <3>. QED BY <3>3 DEF c
    <2>. QED BY <1>1, <2>1
  <1>6. /\ Used' = Used
        /\ \A j \in Used : conn'[j].at = conn[j].at /\ conn'[j].up = conn[j].up
        /\ \A j \in Used, s \in Sides : \A d \in Waiting(j, s) :
               d \in Waiting(j, s)' \/ (j = k /\ s = side /\ d = h)
    <2>. DEFINE lines == <<>>
    <2>1. lines \in Seq(Line)
      OBVIOUS
    <2>2. conn' = [conn EXCEPT ![k] = Sent(Read(k, side), Other(side), lines)]
      BY <1>5
    <2>. HIDE DEF lines, h
    <2>3. k \in Used /\ conn[k].inbox[side] # <<>> /\ Standing
      BY <1>1, <1>3
    <2>. QED BY <1>4, <2>1, <2>2, <2>3, HearAnswer DEF h
  <1>7. h # Hi /\ h # Nice /\ h # List
    BY <1>1, LineKinds
  <1>. HIDE DEF h
  <1>8. /\ \A x \in Nodes, s \in Targets : seeking[x][s] > 0 => seeking'[x][s] > 0
        /\ \A x \in Nodes : seeking[x][x] = 0 => seeking'[x][x] = 0
        /\ \A s \in Nodes \cap unknown : seeking'[n][s] > 0
    BY <1>1, <1>2, SeekingTyped DEF MeshInv
  <1>9. Spoken(k, side, h)
    BY <1>1, <1>6, <1>8 DEF Spoken
  <1>10. Standing'
    <2>1. conn[k].at["server"] \in Nodes /\ "client" \in Sides /\ "server" \in Sides
      BY <1>1, UsedTyped DEF MeshInv, Connection, Sides
    <2>2. <<k, "server">> \in channels'[conn[k].at["server"]] =>
              Nice \in Waiting(k, "client")' \/ <<k, "client">> \in channels'[conn[k].at["client"]]
      BY <1>1, <1>3, <1>6, <1>7, <2>1 DEF Standing
    <2>. QED BY <1>3, <1>7, <1>9, <2>2, SpokenStanding
  <1>11. /\ NoneToSelf' /\ Joined'
         /\ \A x, y \in Nodes : Linked(x, y) => Linked(x, y)'
    BY <1>3, <1>9, SpokenLinks
  <1>12. \A x \in Nodes : Asking(x) => Asking(x)'
    <2>1. WillAsk(k) => WillAsk(k)'
      BY <1>1, <1>6, <1>7 DEF WillAsk, Sides
    <2>. QED BY <1>9, <2>1, SpokenAsking
  <1>13. ASSUME NEW x \in Nodes, NEW y \in Nodes, x # y, Told(x, y), ~Told(x, y)'
         PROVE  Linked(x, y)' \/ Linked(y, x)'
    <2>1. side = "client" /\ From(k, x, Home) /\ y \in h.names
      BY <1>9, <1>13, SpokenTold
    <2>2. n = x
      BY <2>1 DEF From
    <2>3. CASE y \in unknown
      BY <1>8, <2>2, <2>3 DEF Linked
    <2>4. CASE y \in Names(x)
      <3>1. PICK e \in channels[x] : NameOf(e) = y
        BY <2>4 DEF Names
      <3>2. /\ e[1] \in Used /\ e[2] \in Sides /\ conn[e[1]].at[e[2]] = x
            /\ conn[e[1]].at[Other(e[2])] = y
        BY <3>1 DEF MeshInv, ChannelsLive, TypeOK
      <3>3. From(e[1], x, y) \/ From(e[1], y, x)
        BY <3>2 DEF From, Sides, Other
      <3>4. Linked(x, y) \/ Linked(y, x)
        BY <3>2, <3>3 DEF Linked
      <3>. QED BY <1>11, <3>4
    <2>. QED BY <1>13, <2>1, <2>2, <2>3, <2>4
  <1>14. Paired'
    BY <1>3, <1>11, <1>12, <1>13 DEF Paired
  <1>. QED BY <1>10, <1>11, <1>14 DEF Complete

\* The domain's signpost is found.
LEMMA DnsComplete ==
    ASSUME MeshInv, Complete, Listed = {Home}, NEW n \in Nodes, NEW s \in Nodes, DnsAnswers(n, s)
    PROVE  Complete'
  <1>1. /\ s = Home /\ UNCHANGED <<conn, channels>>
        /\ seeking' = [seeking EXCEPT ![n][None] = @ - 1,
                                      ![n][Home] = IF Home = n THEN @ ELSE @ + 1]
    BY DEF DnsAnswers
  <1>2. /\ seeking \in [Nodes -> [Targets -> Nat]] /\ Home \in Nodes /\ Home \in Targets
        /\ None \in Targets /\ \A x \in Nodes : x \in Targets /\ x # None
    BY SeekingTyped, MeshAssumption DEF MeshInv
  <1>3. /\ \A x, y \in Nodes : seeking[x][y] > 0 => seeking'[x][y] > 0
        /\ \A x \in Nodes : seeking[x][x] = 0 => seeking'[x][x] = 0
        /\ \A x \in Nodes \ {Home} :
              seeking[x][None] > 0 => seeking'[x][None] > 0 \/ seeking'[x][Home] > 0
    BY <1>1, <1>2
  <1>4. \A j, x, y : From(j, x, y)' <=> From(j, x, y)
    BY <1>1 DEF From, Used
  <1>5. \A j : Waiting(j, "client")' = Waiting(j, "client") /\ Waiting(j, "server")' = Waiting(j, "server")
    BY <1>1 DEF Waiting
  <1>6. Used' = Used
    BY <1>1 DEF Used
  <1>7. Standing'
    BY <1>1, <1>5, <1>6 DEF Complete, Standing
  <1>8. NoneToSelf'
    BY <1>3 DEF Complete, NoneToSelf
  <1>9. \A x, y \in Nodes : Linked(x, y) => Linked(x, y)'
    BY <1>3, <1>4, <1>6 DEF Linked
  <1>10. Joined'
    BY <1>2, <1>3, <1>9 DEF Complete, Joined, Linked
  <1>11. \A x \in Nodes \ {Home} : Asking(x) => Asking(x)'
    BY <1>2, <1>3, <1>4, <1>5, <1>6 DEF Asking, WillAsk
  <1>12. \A x, y \in Nodes : Told(x, y) => Told(x, y)'
    BY <1>4, <1>5, <1>6 DEF Told
  <1>13. Paired'
    BY <1>9, <1>11, <1>12 DEF Complete, Paired
  <1>. QED BY <1>7, <1>8, <1>10, <1>13 DEF Complete

\* A signpost greets the one it has connected to.
LEMMA ConnectComplete ==
    ASSUME MeshInv, Complete, AllReached, NEW n \in Nodes, NEW s \in Nodes, Connect(n, s)
    PROVE  Complete'
  <1>1. PICK k \in Slots \ Used :
            /\ seeking[n][s] > 0
            /\ seeking' = [seeking EXCEPT ![n][s] = @ - 1]
            /\ conn' = [conn EXCEPT ![k] =
                   [at |-> [side \in Sides |-> IF side = "client" THEN n ELSE s],
                    up |-> TRUE, open |-> [side \in Sides |-> TRUE],
                    name |-> [side \in Sides |-> None],
                    inbox |-> [side \in Sides |-> IF side = "server" THEN <<Hi>> ELSE <<>>]]]
            /\ UNCHANGED channels
    <2>1. \A m \in Reached(s) : m = s
      BY DEF AllReached
    <2>. QED BY <2>1 DEF Connect
  <1>2. /\ conn'[k].at["client"] = n /\ conn'[k].at["server"] = s
        /\ conn'[k].up /\ conn'[k].inbox["server"] = <<Hi>>
        /\ conn'[k].at = [side \in Sides |-> IF side = "client" THEN n ELSE s]
        /\ \A j \in Slots \ {k} : conn'[j] = conn[j]
    BY <1>1 DEF MeshInv, TypeOK, Sides
  <1>3. Hi \in Waiting(k, "server")'
    <2>1. 1 \in DOMAIN <<Hi>> /\ <<Hi>>[1] = Hi
      OBVIOUS
    <2>2. Hi \in Items(<<Hi>>)
      BY <2>1 DEF Items
    <2>. QED BY <1>2, <2>2 DEF Waiting
  <1>4. k \in Used' /\ Used' = Used \cup {k} /\ \A j \in Used : j # k /\ conn'[j] = conn[j]
    <2>1. conn'[k] # Free
      <3>1. DOMAIN Free = {"up"}
        BY DEF Free
      <3>2. "at" \in DOMAIN conn'[k]
        BY <1>1 DEF MeshInv, TypeOK
      <3>. QED BY <3>1, <3>2
    <2>. QED BY <1>1, <1>2, <2>1 DEF Used
  <1>5. n # s /\ Home \in Nodes
    BY <1>1, MeshAssumption DEF Complete, NoneToSelf
  <1>6. /\ seeking \in [Nodes -> [Targets -> Nat]] /\ Home \in Targets
        /\ None \in Targets /\ \A x \in Nodes : x \in Targets /\ x # None
    BY SeekingTyped, MeshAssumption DEF MeshInv
  <1>7. /\ \A x, y \in Nodes : seeking[x][y] > 0 => seeking'[x][y] > 0 \/ (x = n /\ y = s)
        /\ \A x \in Nodes : seeking[x][None] > 0 => seeking'[x][None] > 0
        /\ \A x \in Nodes : seeking[x][x] = 0 => seeking'[x][x] = 0
    BY <1>1, <1>5, <1>6
  <1>8. \A j \in Used, x, y \in Nodes : From(j, x, y) => From(j, x, y)'
    BY <1>4 DEF From
  <1>9. From(k, n, s)'
    BY <1>2, <1>4 DEF From
  <1>10. \A j \in Used : /\ Waiting(j, "client")' = Waiting(j, "client")
                         /\ Waiting(j, "server")' = Waiting(j, "server")
    BY <1>4 DEF Waiting
  <1>11. Standing'
    <2>. SUFFICES ASSUME NEW j \in Used'
                  PROVE  /\ conn'[j].up /\ conn'[j].at["client"] # conn'[j].at["server"]
                         /\ Hi \in Waiting(j, "server")'
                            \/ <<j, "server">> \in channels'[conn'[j].at["server"]]
                         /\ <<j, "server">> \in channels'[conn'[j].at["server"]] =>
                               Nice \in Waiting(j, "client")'
                               \/ <<j, "client">> \in channels'[conn'[j].at["client"]]
      BY DEF Standing
    <2>1. CASE j \in Used
      BY <1>1, <1>4, <1>10, <2>1 DEF Complete, Standing
    <2>2. CASE j = k
      <3>1. <<k, "server">> \notin channels[s]
        BY <1>1 DEF MeshInv, ChannelsLive
      <3>. QED BY <1>1, <1>2, <1>3, <1>5, <2>2, <3>1
    <2>. QED BY <1>4, <2>1, <2>2
  <1>12. NoneToSelf'
    BY <1>7 DEF Complete, NoneToSelf
  <1>13. \A x, y \in Nodes : Linked(x, y) => Linked(x, y)'
    BY <1>4, <1>7, <1>8, <1>9 DEF Linked
  <1>14. Joined'
    BY <1>5, <1>7, <1>13 DEF Complete, Joined
  <1>15. ASSUME NEW x \in Nodes, Asking(x) PROVE Asking(x)'
    <2>1. CASE seeking[x][None] > 0
      BY <1>7, <2>1 DEF Asking
    <2>2. CASE seeking[x][Home] > 0
      <3>1. WillAsk(k)'
        BY <1>3 DEF WillAsk
      <3>. QED BY <1>4, <1>5, <1>7, <1>9, <2>2, <3>1 DEF Asking
    <2>3. ASSUME NEW j \in Used, From(j, x, Home), WillAsk(j) PROVE Asking(x)'
      <3>1. WillAsk(j)'
        BY <1>10, <2>3 DEF WillAsk
      <3>2. From(j, x, Home)'
        BY <1>5, <1>8, <2>3
      <3>. QED BY <1>4, <3>1, <3>2 DEF Asking
    <2>. QED BY <1>15, <2>1, <2>2, <2>3 DEF Asking
  <1>16. \A x, y \in Nodes : Told(x, y) => Told(x, y)'
    BY <1>4, <1>5, <1>8, <1>10 DEF Told
  <1>17. Paired'
    BY <1>13, <1>15, <1>16 DEF Complete, Paired
  <1>. QED BY <1>11, <1>12, <1>14, <1>17 DEF Complete

LEMMA CompleteInit == Init => CompleteInv
  <1>. SUFFICES ASSUME Init PROVE CompleteInv
    OBVIOUS
  <1>1. Used = {} /\ None \in Targets /\ Home \in Nodes
    BY MeshAssumption DEF Init, Used, Targets
  <1>2. \A n \in Nodes : /\ n \in Targets /\ n # None /\ seeking[n][n] = 0
                         /\ n # Home => seeking[n][None] = 1
    BY MeshAssumption DEF Init, Targets
  <1>3. Complete
    BY <1>1, <1>2 DEF Complete, Standing, NoneToSelf, Joined, Paired, Asking
  <1>. QED BY <1>3, MeshInit DEF CompleteInv

LEMMA CompleteStep == Listed = {Home} /\ CompleteInv /\ [Next]_vars => CompleteInv'
  <1>. SUFFICES ASSUME Listed = {Home}, CompleteInv, [Next]_vars PROVE CompleteInv'
    OBVIOUS
  <1>1. MeshInv /\ MeshInv' /\ faults \in Nat
    <2>1. MeshInv /\ faults \in Nat
      BY MeshAssumption DEF CompleteInv, MeshInv, TypeOK
    <2>. QED BY <2>1, MeshStep
  <1>. SUFFICES ASSUME faults' = 0, AllReached' PROVE Complete'
    BY <1>1 DEF CompleteInv
  <1>2. UNCHANGED deployment /\ AllReached
    <2>1. UNCHANGED deployment
      BY DEF Next, vars
    <2>. QED BY <2>1 DEF AllReached, Reached
  <1>3. ~Fault
    BY <1>1 DEF Fault
  <1>4. ASSUME NEW n \in Nodes, NEW s \in Nodes,
               DnsAnswers(n, s) \/ Connect(n, s) \/ ConnectFails(n, s)
        PROVE  Complete'
    <2>1. ~ConnectFails(n, s)
      BY <1>2, <1>3 DEF ConnectFails, AllReached
    <2>2. Complete
      BY <1>2, <1>4, <2>1 DEF CompleteInv, DnsAnswers, Connect
    <2>. QED BY <1>1, <1>2, <1>4, <2>1, <2>2, DnsComplete, ConnectComplete
  <1>5. ASSUME NEW k \in Slots, NEW side \in Sides,
               Receive(k, side) \/ LoseLine(k, side) \/ Unbind(k, side) \/ Break(k)
        PROVE  Complete'
    <2>1. ~LoseLine(k, side) /\ ~Break(k)
      BY <1>3 DEF LoseLine, Break
    <2>2. Complete
      BY <1>2, <1>5, <2>1 DEF CompleteInv, Receive, HearHi, HearNice, HearList, HearSignposts, Unbind
    <2>3. ~Unbind(k, side)
      BY <2>2 DEF Unbind, Breaks, Complete, Standing
    <2>4. CASE (side = "server" /\ HearHi(k)) \/ (side = "client" /\ HearNice(k))
      BY <1>1, <1>2, <2>2, <2>4, GreetingComplete
    <2>5. CASE HearList(k, side) \/ HearSignposts(k, side)
      BY <1>1, <1>2, <2>2, <2>5, ListComplete, SignpostsComplete
    <2>. QED BY <1>5, <2>1, <2>3, <2>4, <2>5 DEF Receive
  <1>6. CASE UNCHANGED vars
    <2>1. Complete /\ UNCHANGED <<conn, channels, seeking>>
      BY <1>2, <1>6 DEF CompleteInv, vars, mesh
    <2>. QED BY <2>1 DEF Complete, Standing, NoneToSelf, Joined, Paired, Linked, Asking, WillAsk,
                         Told, From, Waiting, Used
  <1>7. "client" \in Sides
    BY DEF Sides
  <1>. QED BY <1>4, <1>5, <1>6, <1>7 DEF Next, Step

LEMMA CompleteQuiet == CompleteInv => MeshComplete
  <1>. SUFFICES ASSUME CompleteInv, Quiet, faults = 0, \A n \in Nodes : Reached(n) = {n}
                PROVE  \A m, n \in Nodes : m # n => m \in Names(n)
    BY DEF MeshComplete
  <1>1. MeshInv /\ Standing /\ Joined /\ Paired
    BY DEF CompleteInv, AllReached, Complete
  <1>2. \A k \in Used : Waiting(k, "client") = {} /\ Waiting(k, "server") = {}
    BY DEF Quiet, Waiting, Items, Sides
  <1>3. \A n \in Nodes : seeking[n][None] = 0 /\ \A s \in Nodes : seeking[n][s] = 0
    BY SeekingTyped DEF Quiet, MeshInv, CompleteInv
  <1>4. ASSUME NEW m \in Nodes, NEW n \in Nodes, Linked(m, n)
        PROVE  m \in Names(n) /\ n \in Names(m)
    <2>1. PICK k \in Used : From(k, m, n)
      BY <1>3, <1>4 DEF Linked
    <2>2. <<k, "server">> \in channels[n] /\ <<k, "client">> \in channels[m]
      BY <1>1, <1>2, <2>1 DEF Standing, From
    <2>3. NameOf(<<k, "server">>) = m /\ NameOf(<<k, "client">>) = n
      BY <1>1, <2>1, <2>2 DEF MeshInv, ChannelsLive, From, Other
    <2>. QED BY <2>2, <2>3 DEF Names
  <1>5. \A n \in Nodes \ {Home} : Linked(n, Home) /\ ~Asking(n)
    BY <1>1, <1>2, <1>3, MeshAssumption DEF Joined, Asking, WillAsk
  <1>6. \A m, n \in Nodes : ~Told(m, n)
    BY <1>2 DEF Told
  <1>7. \A m, n \in Nodes : m # n => Linked(m, n) \/ Linked(n, m)
    BY <1>1, <1>5, <1>6 DEF Paired
  <1>. QED BY <1>4, <1>7

\* When all is quiet, nothing has broken and each signpost is where the domain's
\* address leads to, connect_to_signposts has connected everyone to everyone,
\* however many join at a time: the later of the two lists of signposts that two
\* of them ask the domain's signpost for has both. It takes that the domain's
\* signpost is the one the DNS lists; else some would find others first.
THEOREM EveryoneConnected == Listed = {Home} /\ Spec => []MeshComplete
  <1>. SUFFICES ASSUME Listed = {Home} PROVE Spec => []MeshComplete
    OBVIOUS
  <1>1. Init => CompleteInv
    BY CompleteInit
  <1>2. CompleteInv /\ [Next]_vars => CompleteInv'
    BY CompleteStep
  <1>3. CompleteInv => MeshComplete
    BY CompleteQuiet
  <1>. QED BY <1>1, <1>2, <1>3, PTL DEF Spec
=============================================================================
