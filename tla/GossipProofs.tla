---------------------------- MODULE GossipProofs ----------------------------
(***************************************************************************)
(* Proofs about Gossip, for any signposts, channels and bounds: what       *)
(* broken channels lose is made up for; without breaks the last value a    *)
(* signpost provided is the one that stays with the others; and the tables *)
(* are copies of what was provided, as Replicas has it.                    *)
(***************************************************************************)
EXTENDS Gossip, TLAPS

-----------------------------------------------------------------------------
(* Data and channels.                                                      *)

\* What is under way on a channel, whatever the order.
Items(q) == {q[i] : i \in DOMAIN q}

LEMMA ItemsAppend ==
    ASSUME NEW S, NEW q \in Seq(S), NEW d \in S
    PROVE  Items(Append(q, d)) = Items(q) \cup {d}
  <1>1. /\ DOMAIN Append(q, d) = 1 .. Len(q) + 1 /\ DOMAIN q = 1 .. Len(q)
        /\ Append(q, d)[Len(q) + 1] = d /\ Len(q) \in Nat
        /\ \A i \in 1 .. Len(q) : Append(q, d)[i] = q[i]
    OBVIOUS
  <1>. QED BY <1>1 DEF Items

LEMMA ItemsTail ==
    ASSUME NEW S, NEW q \in Seq(S), q # <<>>
    PROVE  Items(q) = Items(Tail(q)) \cup {Head(q)}
  <1>1. /\ DOMAIN Tail(q) = 1 .. Len(q) - 1 /\ DOMAIN q = 1 .. Len(q)
        /\ Head(q) = q[1] /\ Len(q) \in Nat \ {0}
        /\ \A i \in 1 .. Len(q) - 1 : Tail(q)[i] = q[i + 1]
    OBVIOUS
  <1>2. ASSUME NEW i \in DOMAIN q PROVE q[i] \in Items(Tail(q)) \cup {Head(q)}
    <2>1. CASE i = 1
      BY <1>1, <2>1
    <2>2. CASE i # 1
      <3>1. i - 1 \in DOMAIN Tail(q) /\ Tail(q)[i - 1] = q[i]
        BY <1>1, <2>2
      <3>. QED BY <3>1 DEF Items
    <2>. QED BY <2>1, <2>2
  <1>3. ASSUME NEW i \in DOMAIN Tail(q) PROVE Tail(q)[i] \in Items(q)
    BY <1>1, <1>3 DEF Items
  <1>4. Head(q) \in Items(q)
    BY <1>1 DEF Items
  <1>. QED BY <1>2, <1>3, <1>4 DEF Items

LEMMA ItemsShort == /\ Items(<<>>) = {}
                    /\ \A d : Items(<<d>>) = {d}
  BY DEF Items

LEMMA DataKinds ==
    /\ \A d \in Data : /\ d.kind = "truths" => d \in Truths
                       /\ d.kind = "resolve" => d \in Resolve
                       /\ d.kind = "gimme_truths" => d = Gimme
    /\ \A d \in Truths : d.kind = "truths" /\ d \in Data /\ d # Gimme
    /\ \A d \in Resolve : d.kind = "resolve" /\ d \in Data /\ d # Gimme
    /\ Gimme.kind = "gimme_truths" /\ Gimme \in Data
  <1>1. \A d \in Truths : d.kind = "truths"
    BY DEF Truths
  <1>2. \A d \in Resolve : d.kind = "resolve"
    BY DEF Resolve
  <1>3. Gimme.kind = "gimme_truths"
    BY DEF Gimme
  <1>. QED BY <1>1, <1>2, <1>3 DEF Data

LEMMA LinksTyped ==
    \A l \in Links : /\ l[1] \in Nodes /\ l[2] \in Nodes /\ l[1] # l[2]
                     /\ l = <<l[1], l[2]>> /\ <<l[2], l[1]>> \in Links
  <1>1. ASSUME NEW l \in Nodes \X Nodes
        PROVE  l[1] \in Nodes /\ l[2] \in Nodes /\ l = <<l[1], l[2]>>
    OBVIOUS
  <1>. QED BY <1>1, GossipAssumption

\* What sending appends, and to which channels.
LEMMA SentTyped ==
    ASSUME NEW c \in [Links -> Seq(Data)], NEW n \in Nodes, NEW to \in SUBSET Nodes, NEW d \in Data
    PROVE  Sent(c, n, to, d) \in [Links -> Seq(Data)]
  BY DEF Sent

LEMMA RestItems ==
    ASSUME TypeOK, NEW l \in Links, chan[l] # <<>>
    PROVE  LET d == Head(chan[l])  c == Rest(l[1], l[2]) IN
           /\ d \in Data /\ d \in Items(chan[l]) /\ c \in [Links -> Seq(Data)]
           /\ Items(chan[l]) = Items(c[l]) \cup {d}
           /\ \A k \in Links \ {l} : c[k] = chan[k]
  <1>1. chan \in [Links -> Seq(Data)] /\ chan[l] \in Seq(Data)
    BY DEF TypeOK
  <1>2. Head(chan[l]) \in Data /\ Tail(chan[l]) \in Seq(Data)
    BY <1>1
  <1>3. Items(chan[l]) = Items(Tail(chan[l])) \cup {Head(chan[l])}
    BY <1>1, ItemsTail
  <1>4. Rest(l[1], l[2]) = [chan EXCEPT ![l] = Tail(chan[l])]
    BY LinksTyped DEF Rest
  <1>. QED BY <1>1, <1>2, <1>3, <1>4

-----------------------------------------------------------------------------
(* The table of truths.                                                    *)

Has(n, s) == store[n][s] # Nothing

LEMMA Learned ==
    ASSUME TypeOK, NEW n \in Nodes, NEW known \in SUBSET (Nodes \X Values),
           store' = Learn(n, known)
    PROVE  /\ store' \in [Nodes -> [Nodes -> Values \cup {Nothing}]]
           /\ \A m \in Nodes \ {n} : store'[m] = store[m]
           /\ \A s \in Nodes : Has(n, s)' <=> Has(n, s) \/ \E k \in known : k[1] = s
  <1>. DEFINE Learnt(s) == \E v \in Values : <<s, v>> \in known
              Value(s) == CHOOSE v \in Values : <<s, v>> \in known
  <1>1. \A s \in Nodes : Learnt(s) => Value(s) \in Values /\ Value(s) # Nothing
    BY GossipAssumption
  <1>2. ASSUME NEW s \in Nodes PROVE Learnt(s) <=> \E k \in known : k[1] = s
    <2>1. ASSUME NEW k \in known, k[1] = s PROVE Learnt(s)
      <3>1. k = <<s, k[2]>> /\ k[2] \in Values
        BY <2>1
      <3>. QED BY <3>1
    <2>2. ASSUME NEW v \in Values, <<s, v>> \in known PROVE \E k \in known : k[1] = s
      BY <2>2
    <2>. QED BY <2>1, <2>2
  <1>3. store' = [store EXCEPT ![n] = [s \in Nodes |-> IF Learnt(s) THEN Value(s) ELSE @[s]]]
    BY DEF Learn
  <1>. HIDE DEF Learnt, Value
  <1>. QED BY <1>1, <1>2, <1>3 DEF TypeOK, Has

LEMMA KnownTyped ==
    ASSUME TypeOK, NEW n \in Nodes
    PROVE  /\ Known(n) \in SUBSET (Nodes \X Values)
           /\ \A s \in Nodes : Has(n, s) <=> \E k \in Known(n) : k[1] = s
  <1>. SUFFICES ASSUME NEW s \in Nodes
                PROVE  Has(n, s) <=> \E k \in Known(n) : k[1] = s
    BY DEF TypeOK, Known
  <1>1. \A k \in Known(n) : k[1] = s => Has(n, s)
    BY DEF Known, Has
  <1>2. ASSUME Has(n, s) PROVE <<s, store[n][s]>> \in Known(n)
    BY <1>2 DEF Known, Has
  <1>3. Has(n, s) => \E k \in Known(n) : k[1] = s
    BY <1>2
  <1>. QED BY <1>1, <1>3

-----------------------------------------------------------------------------
(* Types.                                                                  *)

\* What a step that sends unasked does to the channels.
LEMMA SentItems ==
    ASSUME TypeOK, NEW n \in Nodes, NEW to \in SUBSET Nodes, NEW d \in Data,
           chan' = Sent(chan, n, to, d)
    PROVE  /\ chan' \in [Links -> Seq(Data)]
           /\ \A k \in Links :
                 /\ k[1] = n /\ k[2] \in to => Items(chan'[k]) = Items(chan[k]) \cup {d}
                 /\ ~(k[1] = n /\ k[2] \in to) => chan'[k] = chan[k]
  <1>1. chan \in [Links -> Seq(Data)]
    BY DEF TypeOK
  <1>. QED BY <1>1, SentTyped, ItemsAppend DEF Sent

LEMMA SentToAll ==
    ASSUME TypeOK, NEW n \in Nodes, NEW d \in Data, chan' = Sent(chan, n, Neighbours(n), d)
    PROVE  \A k \in Links :
              /\ k[1] = n => Items(chan'[k]) = Items(chan[k]) \cup {d}
              /\ k[1] # n => chan'[k] = chan[k]
  <1>1. Neighbours(n) \in SUBSET Nodes
    BY DEF Neighbours
  <1>2. ASSUME NEW k \in Links, k[1] = n PROVE k[2] \in Neighbours(n)
    <2>1. k[2] \in Nodes /\ <<n, k[2]>> = k
      BY <1>2, LinksTyped
    <2>. QED BY <2>1 DEF Neighbours
  <1>3. \A k \in Links :
           /\ k[1] = n /\ k[2] \in Neighbours(n) => Items(chan'[k]) = Items(chan[k]) \cup {d}
           /\ ~(k[1] = n /\ k[2] \in Neighbours(n)) => chan'[k] = chan[k]
    BY <1>1, SentItems
  <1>. QED BY <1>2, <1>3

\* A step that receives on l takes the head off it and gives d to the channels
\* from the receiver to each of to.
Received(l, to, d) ==
    \A k \in Links :
        /\ Items(chan[k]) \subseteq Items(chan'[k]) \cup {Head(chan[l])}
        /\ k # l => Items(chan[k]) \subseteq Items(chan'[k])
        /\ Items(chan'[k]) \subseteq Items(chan[k]) \cup {d}
        /\ k[1] = l[2] /\ k[2] \in to => d \in Items(chan'[k])
        /\ ~(k[1] = l[2] /\ k[2] \in to) => Items(chan'[k]) \subseteq Items(chan[k])

LEMMA ReceivedItems ==
    ASSUME TypeOK, NEW l \in Links, chan[l] # <<>>, NEW d \in Data, NEW to \in SUBSET Nodes,
           chan' = Sent(Rest(l[1], l[2]), l[2], to, d)
    PROVE  chan' \in [Links -> Seq(Data)] /\ Received(l, to, d)
  <1>. DEFINE c == Rest(l[1], l[2])
  <1>1. /\ c \in [Links -> Seq(Data)]
        /\ Items(chan[l]) = Items(c[l]) \cup {Head(chan[l])}
        /\ \A k \in Links \ {l} : c[k] = chan[k]
    BY RestItems
  <1>. DEFINE s == Sent(c, l[2], to, d)
  <1>. HIDE DEF c
  <1>2. s \in [Links -> Seq(Data)]
    BY <1>1, LinksTyped, SentTyped
  <1>3. ASSUME NEW k \in Links
        PROVE  /\ k[1] = l[2] /\ k[2] \in to => Items(s[k]) = Items(c[k]) \cup {d}
               /\ ~(k[1] = l[2] /\ k[2] \in to) => s[k] = c[k]
    BY <1>1, ItemsAppend DEF Sent
  <1>4. chan' = s
    BY DEF c
  <1>. HIDE DEF s
  <1>. QED BY <1>1, <1>2, <1>3, <1>4 DEF Received

\* Broadcasting what was received.
LEMMA BroadcastItems ==
    ASSUME TypeOK, NEW l \in Links, chan[l] # <<>>, NEW d, d = Head(chan[l]),
           Broadcast(l[1], l[2], d)
    PROVE  \A k \in Links :
              /\ k[1] = l[2] /\ k[2] # l[1] => d \in Items(chan'[k])
              /\ k[1] # l[2] => Items(chan'[k]) \subseteq Items(chan[k])
              /\ Items(chan'[k]) \subseteq Items(chan[k]) \cup {d}
              /\ Items(chan[k]) \subseteq Items(chan'[k]) \cup {d}
              /\ k # l => Items(chan[k]) \subseteq Items(chan'[k])
  <1>. DEFINE to == Neighbours(l[2]) \ {l[1]}
  <1>1. d \in Data /\ to \in SUBSET Nodes /\ chan' = Sent(Rest(l[1], l[2]), l[2], to, d)
    BY RestItems DEF Broadcast, Neighbours
  <1>2. ASSUME NEW k \in Links, k[1] = l[2], k[2] # l[1] PROVE k[2] \in to
    <2>1. k[2] \in Nodes /\ <<l[2], k[2]>> = k
      BY <1>2, LinksTyped
    <2>. QED BY <1>2, <2>1 DEF Neighbours
  <1>. HIDE DEF to
  <1>3. Received(l, to, d)
    BY <1>1, ReceivedItems
  <1>. QED BY <1>2, <1>3 DEF Received

LEMMA HeadTyped ==
    ASSUME TypeOK, NEW l \in Links, chan[l] # <<>>
    PROVE  Head(chan[l]) \in Data /\ Head(chan[l]) \in Items(chan[l])
  BY RestItems

LEMMA TypedStep == TypeOK /\ [Next]_vars => TypeOK'
  <1>. SUFFICES ASSUME TypeOK, [Next]_vars PROVE TypeOK'
    OBVIOUS
  <1>1. ASSUME NEW n \in Nodes, NEW v \in Values, Provide(n, v) PROVE TypeOK'
    <2>. DEFINE d == [kind |-> "truths", known |-> {<<n, v>>}, aged |-> FALSE]
    <2>1. d \in Data
      BY DEF Data, Truths
    <2>2. chan' \in [Links -> Seq(Data)]
      <3>1. chan \in [Links -> Seq(Data)] /\ chan' = Sent(chan, n, Neighbours(n), d)
        BY <1>1 DEF Provide, TypeOK
      <3>. QED BY <2>1, <3>1, SentTyped DEF Neighbours
    <2>3. store' \in [Nodes -> [Nodes -> Values \cup {Nothing}]]
      <3>1. {<<n, v>>} \in SUBSET (Nodes \X Values) /\ store' = Learn(n, {<<n, v>>})
        BY <1>1 DEF Provide
      <3>. QED BY <3>1, Learned
    <2>4. used' \in [Nodes -> Seq(Values)]
      BY <1>1 DEF Provide, TypeOK
    <2>. QED BY <1>1, <2>2, <2>3, <2>4 DEF Provide, TypeOK
  <1>2. ASSUME NEW r \in Nodes, NEW s \in Nodes, Ask(r, s) PROVE TypeOK'
    <2>. DEFINE d == [kind |-> "resolve", at |-> s]
    <2>1. d \in Data /\ d \in Resolve
      BY DEF Data, Resolve
    <2>2. chan' \in [Links -> Seq(Data)] /\ seen' = [seen EXCEPT ![r] = @ \cup {d}]
      <3>1. chan \in [Links -> Seq(Data)] /\ chan' = Sent(chan, r, Neighbours(r), d)
        BY <1>2 DEF Ask, TypeOK
      <3>2. chan' \in [Links -> Seq(Data)]
        BY <2>1, <3>1, SentTyped DEF Neighbours
      <3>. QED BY <1>2, <3>2 DEF Ask
    <2>3. asks' \in 0 .. MaxAsks
      BY <1>2, GossipAssumption DEF Ask, TypeOK
    <2>. QED BY <1>2, <2>1, <2>2, <2>3 DEF Ask, TypeOK
  <1>3. ASSUME NEW l \in Links, Receive(l[1], l[2]) PROVE TypeOK'
    <2>. DEFINE m == l[1]
                n == l[2]
                d == Head(chan[l])
    <2>1. /\ m \in Nodes /\ n \in Nodes /\ m # n /\ <<m, n>> = l
      BY LinksTyped
    <2>2. chan[l] # <<>>
      BY <1>3, <2>1 DEF Receive, Drop, Take, ReceiveTruths, ReceiveResolve, ReceiveGimme
    <2>3. d \in Data
      BY <2>2, HeadTyped
    <2>4. CASE Drop(m, n)
      BY <2>2, <2>4, RestItems DEF Drop, TypeOK
    <2>5. CASE ReceiveTruths(m, n, d) \/ ReceiveResolve(m, n, d)
      <3>1. Broadcast(m, n, d) /\ d \in Truths \cup Resolve /\ UNCHANGED <<used, asks, reconnects>>
        BY <2>3, <2>5, DataKinds DEF ReceiveTruths, ReceiveResolve
      <3>2. chan' \in [Links -> Seq(Data)]
        BY <2>1, <2>2, <2>3, <3>1, ReceivedItems DEF Broadcast, Neighbours
      <3>3. seen' \in [Nodes -> SUBSET (Truths \cup Resolve)]
        BY <2>1, <3>1 DEF Broadcast, TypeOK
      <3>4. store' \in [Nodes -> [Nodes -> Values \cup {Nothing}]]
        <4>1. CASE ReceiveTruths(m, n, d)
          <5>1. d.known \in SUBSET (Nodes \X Values)
            BY <2>3, <4>1, DataKinds DEF ReceiveTruths, Truths
          <5>. QED BY <2>1, <4>1, <5>1, Learned DEF ReceiveTruths
        <4>2. CASE ReceiveResolve(m, n, d)
          BY <4>2 DEF ReceiveResolve, TypeOK
        <4>. QED BY <2>5, <4>1, <4>2
      <3>5. generating' \subseteq Nodes /\ pending' \subseteq Nodes \X Nodes
        BY <2>1, <2>5 DEF ReceiveTruths, ReceiveResolve, TypeOK
      <3>. QED BY <3>1, <3>2, <3>3, <3>4, <3>5 DEF TypeOK
    <2>6. CASE ReceiveGimme(m, n, d)
      <3>1. PICK aged \in BOOLEAN :
               chan' = IF Known(n) = {} THEN Rest(m, n)
                       ELSE Sent(Rest(m, n), n, {m},
                                 [kind |-> "truths", known |-> Known(n), aged |-> aged])
        BY <2>6 DEF ReceiveGimme
      <3>2. [kind |-> "truths", known |-> Known(n), aged |-> aged] \in Data
        BY <2>1, KnownTyped DEF Data, Truths
      <3>3. Rest(m, n) \in [Links -> Seq(Data)]
        BY <2>2, RestItems
      <3>4. chan' \in [Links -> Seq(Data)]
        BY <2>1, <3>1, <3>2, <3>3, SentTyped
      <3>. QED BY <2>6, <3>4 DEF ReceiveGimme, TypeOK
    <2>. QED BY <1>3, <2>1, <2>4, <2>5, <2>6 DEF Receive
  <1>4. ASSUME NEW l \in Links, Reconnect(l[1], l[2]) PROVE TypeOK'
    <2>1. <<Gimme>> \in Seq(Data)
      BY DataKinds
    <2>2. chan' \in [Links -> Seq(Data)]
      BY <1>4, <2>1 DEF Reconnect, TypeOK
    <2>3. reconnects' \in 0 .. MaxReconnects
      BY <1>4, GossipAssumption DEF Reconnect, TypeOK
    <2>. QED BY <1>4, <2>2, <2>3 DEF Reconnect, TypeOK
  <1>5. ASSUME NEW n \in Nodes, NEW d \in seen[n], Prune(n, d) PROVE TypeOK'
    BY <1>5 DEF Prune, TypeOK
  <1>6. CASE UNCHANGED vars
    BY <1>6 DEF vars, TypeOK
  <1>. QED BY <1>1, <1>2, <1>3, <1>4, <1>5, <1>6 DEF Next

-----------------------------------------------------------------------------
(* No truth is missing for good.                                           *)

\* d has a truth that s generated.
About(d, s) == d.kind = "truths" /\ \E k \in d.known : k[1] = s

\* Between a signpost that has a truth and a neighbour that has none of it, the
\* truth or the request for it is under way.
Covered ==
    \A l \in Links, s \in Nodes : Has(l[1], s) /\ ~Has(l[2], s) =>
        \/ \E d \in Items(chan[l]) : About(d, s)
        \/ Gimme \in Items(chan[<<l[2], l[1]>>])

OwnKept == \A s \in Nodes : used[s] # <<>> => Has(s, s)
SendersKnow == \A l \in Links, s \in Nodes : \A d \in Items(chan[l]) : About(d, s) => Has(l[1], s)
CachesKnow == \A n, s \in Nodes : \A d \in seen[n] : About(d, s) => Has(n, s)

\* Covered by itself is not inductive: a signpost does not send a truth back to
\* where it came from, and drops what its cache has, which is right because the
\* sender, and the signpost whose cache it is, have it.
NoneLostInv == TypeOK /\ OwnKept /\ Covered /\ SendersKnow /\ CachesKnow

LEMMA NoneLostProvide ==
    ASSUME NoneLostInv, NEW n \in Nodes, NEW v \in Values, Provide(n, v), TypeOK'
    PROVE  NoneLostInv'
  <1>. DEFINE d == [kind |-> "truths", known |-> {<<n, v>>}, aged |-> FALSE]
  <1>1. d \in Data /\ \A s \in Nodes : About(d, s) <=> s = n
    BY DEF Data, Truths, About
  <1>2. /\ store' = Learn(n, {<<n, v>>}) /\ chan' = Sent(chan, n, Neighbours(n), d)
        /\ used' = [used EXCEPT ![n] = Append(@, v)] /\ UNCHANGED seen
    BY DEF Provide
  <1>. HIDE DEF d
  <1>3. \A k \in Links :
           /\ k[1] = n => Items(chan'[k]) = Items(chan[k]) \cup {d}
           /\ k[1] # n => chan'[k] = chan[k]
    BY <1>1, <1>2, SentToAll DEF NoneLostInv
  <1>4. \A x, s \in Nodes : Has(x, s)' <=> Has(x, s) \/ (x = n /\ s = n)
    <2>1. {<<n, v>>} \in SUBSET (Nodes \X Values) /\ \A s : (\E k \in {<<n, v>>} : k[1] = s) <=> s = n
      OBVIOUS
    <2>2. \A s \in Nodes : Has(n, s)' <=> Has(n, s) \/ s = n
      BY <1>2, <2>1, Learned DEF NoneLostInv
    <2>3. \A m \in Nodes \ {n} : store'[m] = store[m]
      BY <1>2, <2>1, Learned DEF NoneLostInv
    <2>. QED BY <2>2, <2>3 DEF Has
  <1>5. ASSUME NEW k \in Links, NEW s \in Nodes, Has(k[1], s)', ~Has(k[2], s)'
        PROVE  (\E e \in Items(chan'[k]) : About(e, s)) \/ Gimme \in Items(chan'[<<k[2], k[1]>>])
    <2>1. CASE Has(k[1], s)
      <3>1. ~Has(k[2], s)
        BY <1>4, <1>5, LinksTyped
      <3>2. (\E e \in Items(chan[k]) : About(e, s)) \/ Gimme \in Items(chan[<<k[2], k[1]>>])
        BY <2>1, <3>1 DEF NoneLostInv, Covered
      <3>. QED BY <1>3, <3>2, LinksTyped
    <2>2. CASE ~Has(k[1], s)
      BY <1>1, <1>3, <1>4, <1>5, <2>2, LinksTyped
    <2>. QED BY <2>1, <2>2
  <1>6. OwnKept'
    BY <1>2, <1>4 DEF NoneLostInv, OwnKept, TypeOK
  <1>7. ASSUME NEW l \in Links, NEW s \in Nodes, NEW e \in Items(chan'[l]), About(e, s)
        PROVE  Has(l[1], s)'
    <2>1. CASE e \in Items(chan[l])
      <3>1. Has(l[1], s)
        BY <1>7, <2>1 DEF NoneLostInv, SendersKnow
      <3>. QED BY <1>4, <3>1, LinksTyped
    <2>2. CASE e \notin Items(chan[l])
      <3>1. l[1] = n /\ e = d
        BY <1>3, <1>7, <2>2
      <3>. QED BY <1>1, <1>4, <1>7, <3>1
    <2>. QED BY <2>1, <2>2
  <1>8. CachesKnow'
    BY <1>2, <1>4 DEF NoneLostInv, CachesKnow
  <1>. QED BY <1>5, <1>6, <1>7, <1>8 DEF NoneLostInv, Covered, SendersKnow

LEMMA NoneLostAsk ==
    ASSUME NoneLostInv, NEW r \in Nodes, NEW q \in Nodes, Ask(r, q), TypeOK'
    PROVE  NoneLostInv'
  <1>. DEFINE d == [kind |-> "resolve", at |-> q]
  <1>1. d \in Data /\ \A s \in Nodes : ~About(d, s)
    BY DEF Data, Resolve, About
  <1>2. /\ chan' = Sent(chan, r, Neighbours(r), d) /\ seen' = [seen EXCEPT ![r] = @ \cup {d}]
        /\ UNCHANGED <<store, used>>
    BY DEF Ask
  <1>. HIDE DEF d
  <1>3. \A k \in Links :
           /\ k[1] = r => Items(chan'[k]) = Items(chan[k]) \cup {d}
           /\ k[1] # r => chan'[k] = chan[k]
    BY <1>1, <1>2, SentToAll DEF NoneLostInv
  <1>4. \A x, s \in Nodes : Has(x, s)' <=> Has(x, s)
    BY <1>2 DEF Has
  <1>5. Covered'
    BY <1>3, <1>4, LinksTyped DEF NoneLostInv, Covered
  <1>6. ASSUME NEW l \in Links, NEW s \in Nodes, NEW e \in Items(chan'[l]), About(e, s)
        PROVE  Has(l[1], s)'
    <2>1. e \in Items(chan[l])
      BY <1>1, <1>3, <1>6
    <2>2. Has(l[1], s)
      BY <1>6, <2>1 DEF NoneLostInv, SendersKnow
    <2>. QED BY <1>4, <2>2, LinksTyped
  <1>7. CachesKnow'
    BY <1>1, <1>2, <1>4 DEF NoneLostInv, TypeOK, CachesKnow
  <1>8. OwnKept'
    BY <1>2, <1>4 DEF NoneLostInv, OwnKept
  <1>. QED BY <1>5, <1>6, <1>7, <1>8 DEF NoneLostInv, SendersKnow

LEMMA NoneLostReconnect ==
    ASSUME NoneLostInv, NEW l \in Links, Reconnect(l[1], l[2]), TypeOK'
    PROVE  NoneLostInv'
  <1>. DEFINE back == <<l[2], l[1]>>
  <1>1. back \in Links /\ back # l /\ \A s \in Nodes : ~About(Gimme, s)
    BY LinksTyped, DataKinds DEF About
  <1>2. /\ Items(chan'[l]) = {Gimme} /\ Items(chan'[back]) = {Gimme}
        /\ \A k \in Links \ {l, back} : chan'[k] = chan[k]
    BY <1>1, LinksTyped, ItemsShort DEF Reconnect, NoneLostInv, TypeOK
  <1>3. \A x, s \in Nodes : Has(x, s)' <=> Has(x, s)
    BY DEF Reconnect, Has
  <1>4. ASSUME NEW k \in Links, NEW s \in Nodes, Has(k[1], s)', ~Has(k[2], s)'
        PROVE  (\E d \in Items(chan'[k]) : About(d, s)) \/ Gimme \in Items(chan'[<<k[2], k[1]>>])
    <2>1. CASE k \in {l, back}
      BY <1>1, <1>2, <2>1, LinksTyped
    <2>2. CASE k \notin {l, back}
      <3>1. <<k[2], k[1]>> \in Links \ {l, back}
        BY <2>2, LinksTyped
      <3>. QED BY <1>2, <1>3, <1>4, <2>2, <3>1, LinksTyped DEF NoneLostInv, Covered
    <2>. QED BY <2>1, <2>2
  <1>5. Covered'
    BY <1>4 DEF Covered
  <1>6. ASSUME NEW k \in Links, NEW s \in Nodes, NEW e \in Items(chan'[k]), About(e, s)
        PROVE  Has(k[1], s)'
    <2>1. e \in Items(chan[k])
      BY <1>1, <1>2, <1>6
    <2>2. Has(k[1], s)
      BY <1>6, <2>1 DEF NoneLostInv, SendersKnow
    <2>. QED BY <1>3, <2>2, LinksTyped
  <1>7. OwnKept' /\ CachesKnow'
    BY <1>3 DEF Reconnect, NoneLostInv, OwnKept, CachesKnow
  <1>. QED BY <1>5, <1>6, <1>7 DEF NoneLostInv, SendersKnow

\* Truths and queries that are new are acted on and sent on.
LEMMA NoneLostBroadcast ==
    ASSUME NoneLostInv, NEW l \in Links, chan[l] # <<>>, NEW d, d = Head(chan[l]),
           ReceiveTruths(l[1], l[2], d) \/ ReceiveResolve(l[1], l[2], d), TypeOK'
    PROVE  NoneLostInv'
  <1>. DEFINE m == l[1]
              n == l[2]
  <1>1. /\ Broadcast(m, n, d) /\ UNCHANGED used
        /\ d \in Items(chan[l]) /\ d \in Truths \cup Resolve /\ d # Gimme
    BY HeadTyped, DataKinds DEF ReceiveTruths, ReceiveResolve, NoneLostInv
  <1>2. n \in Nodes /\ m \in Nodes
    BY LinksTyped
  <1>3. \A x, s \in Nodes : Has(x, s)' <=> Has(x, s) \/ (x = n /\ About(d, s))
    <2>1. CASE ReceiveTruths(m, n, d)
      <3>1. d.kind = "truths" /\ d \in Truths /\ store' = Learn(n, d.known)
        BY <1>1, <2>1, DataKinds DEF ReceiveTruths
      <3>2. d.known \in SUBSET (Nodes \X Values)
        BY <3>1 DEF Truths
      <3>3. /\ \A s \in Nodes : Has(n, s)' <=> Has(n, s) \/ About(d, s)
            /\ \A x \in Nodes \ {n} : store'[x] = store[x]
        BY <1>2, <3>1, <3>2, Learned DEF NoneLostInv, About
      <3>. QED BY <3>3 DEF Has
    <2>2. CASE ReceiveResolve(m, n, d)
      BY <2>2 DEF ReceiveResolve, Has, About
    <2>. QED BY <2>1, <2>2
  <1>4. \A k \in Links :
           /\ k[1] = n /\ k[2] # m => d \in Items(chan'[k])
           /\ k[1] # n => Items(chan'[k]) \subseteq Items(chan[k])
           /\ Items(chan'[k]) \subseteq Items(chan[k]) \cup {d}
           /\ Items(chan[k]) \subseteq Items(chan'[k]) \cup {d}
           /\ k # l => Items(chan[k]) \subseteq Items(chan'[k])
    BY <1>1, BroadcastItems DEF NoneLostInv
  <1>5. ASSUME NEW k \in Links, NEW s \in Nodes, Has(k[1], s)', ~Has(k[2], s)'
        PROVE  (\E e \in Items(chan'[k]) : About(e, s)) \/ Gimme \in Items(chan'[<<k[2], k[1]>>])
    <2>0. k[1] \in Nodes /\ k[2] \in Nodes /\ <<k[2], k[1]>> \in Links
      BY LinksTyped
    <2>1. CASE Has(k[1], s)
      <3>1. ~Has(k[2], s) /\ ~(k[2] = n /\ About(d, s))
        BY <1>3, <1>5, <2>0
      <3>2. CASE Gimme \in Items(chan[<<k[2], k[1]>>])
        BY <1>1, <1>4, <2>0, <3>2
      <3>3. ASSUME NEW e \in Items(chan[k]), About(e, s) PROVE e \in Items(chan'[k])
        BY <1>4, <3>1, <3>3
      <3>. QED BY <2>1, <3>1, <3>2, <3>3 DEF NoneLostInv, Covered
    <2>2. CASE ~Has(k[1], s)
      <3>1. k[1] = n /\ About(d, s)
        BY <1>3, <1>5, <2>0, <2>2
      <3>2. Has(m, s) /\ Has(m, s)'
        BY <1>1, <1>2, <1>3, <3>1 DEF NoneLostInv, SendersKnow
      <3>3. k[2] # m
        BY <1>5, <3>2
      <3>. QED BY <1>4, <3>1, <3>3
    <2>. QED BY <2>1, <2>2
  <1>6. ASSUME NEW k \in Links, NEW s \in Nodes, NEW e \in Items(chan'[k]), About(e, s)
        PROVE  Has(k[1], s)'
    <2>1. CASE e \in Items(chan[k])
      <3>1. Has(k[1], s)
        BY <1>6, <2>1 DEF NoneLostInv, SendersKnow
      <3>. QED BY <1>3, <3>1, LinksTyped
    <2>2. CASE e \notin Items(chan[k])
      <3>1. k[1] = n /\ e = d
        BY <1>4, <1>6, <2>2
      <3>. QED BY <1>2, <1>3, <1>6, <3>1
    <2>. QED BY <2>1, <2>2
  <1>7. OwnKept'
    BY <1>1, <1>3 DEF NoneLostInv, OwnKept
  <1>8. CachesKnow'
    <2>1. seen' = [seen EXCEPT ![n] = @ \cup {d}] /\ seen \in [Nodes -> SUBSET (Truths \cup Resolve)]
      BY <1>1 DEF Broadcast, NoneLostInv, TypeOK
    <2>. QED BY <1>3, <2>1 DEF NoneLostInv, CachesKnow
  <1>. QED BY <1>5, <1>6, <1>7, <1>8 DEF NoneLostInv, Covered, SendersKnow

\* What a signpost has seen is not lost with the copy it drops.
LEMMA NoneLostDrop ==
    ASSUME NoneLostInv, NEW l \in Links, Drop(l[1], l[2]), TypeOK'
    PROVE  NoneLostInv'
  <1>. DEFINE d == Head(chan[l])
  <1>1. chan[l] # <<>> /\ d \in seen[l[2]] /\ chan' = Rest(l[1], l[2]) /\ UNCHANGED <<store, seen, used>>
    BY LinksTyped DEF Drop, Take, Seen
  <1>2. l[2] \in Nodes /\ d # Gimme
    BY <1>1, LinksTyped, DataKinds DEF NoneLostInv, TypeOK
  <1>3. /\ Items(chan[l]) = Items(chan'[l]) \cup {d}
        /\ \A k \in Links \ {l} : chan'[k] = chan[k]
    BY <1>1, RestItems DEF NoneLostInv
  <1>. HIDE DEF d
  <1>4. \A x, s \in Nodes : Has(x, s)' <=> Has(x, s)
    BY <1>1 DEF Has
  <1>5. ASSUME NEW k \in Links, NEW s \in Nodes, Has(k[1], s)', ~Has(k[2], s)'
        PROVE  (\E e \in Items(chan'[k]) : About(e, s)) \/ Gimme \in Items(chan'[<<k[2], k[1]>>])
    <2>1. Has(k[1], s) /\ ~Has(k[2], s) /\ <<k[2], k[1]>> \in Links
      BY <1>4, <1>5, LinksTyped
    <2>2. CASE Gimme \in Items(chan[<<k[2], k[1]>>])
      BY <1>2, <1>3, <2>1, <2>2
    <2>3. ASSUME NEW e \in Items(chan[k]), About(e, s) PROVE e \in Items(chan'[k])
      <3>1. k = l => e # d
        BY <1>1, <1>2, <2>1, <2>3 DEF NoneLostInv, CachesKnow
      <3>. QED BY <1>3, <3>1
    <2>. QED BY <2>1, <2>2, <2>3 DEF NoneLostInv, Covered
  <1>6. ASSUME NEW k \in Links, NEW s \in Nodes, NEW e \in Items(chan'[k]), About(e, s)
        PROVE  Has(k[1], s)'
    <2>1. e \in Items(chan[k])
      BY <1>3
    <2>2. Has(k[1], s)
      BY <1>6, <2>1 DEF NoneLostInv, SendersKnow
    <2>. QED BY <1>4, <2>2, LinksTyped
  <1>7. OwnKept' /\ CachesKnow'
    BY <1>1, <1>4 DEF NoneLostInv, OwnKept, CachesKnow
  <1>. QED BY <1>5, <1>6, <1>7 DEF NoneLostInv, Covered, SendersKnow

\* A request for the truths is answered with the whole table.
LEMMA NoneLostGimme ==
    ASSUME NoneLostInv, NEW l \in Links, chan[l] # <<>>,
           ReceiveGimme(l[1], l[2], Head(chan[l])), TypeOK'
    PROVE  NoneLostInv'
  <1>. DEFINE m == l[1]
              n == l[2]
              back == <<n, m>>
  <1>1. n \in Nodes /\ m \in Nodes /\ l = <<m, n>> /\ back \in Links /\ back # l
    BY LinksTyped
  <1>2. Head(chan[l]) = Gimme /\ UNCHANGED <<store, seen, used>>
    BY HeadTyped, DataKinds DEF ReceiveGimme, NoneLostInv
  <1>3. \A x, s \in Nodes : Has(x, s)' <=> Has(x, s)
    BY <1>2 DEF Has
  <1>4. \A s \in Nodes : ~About(Gimme, s)
    BY DataKinds DEF About
  <1>5. PICK d :
           /\ \A s \in Nodes : About(d, s) <=> Has(n, s)
           /\ \A k \in Links : Items(chan'[k]) \subseteq Items(chan[k]) \cup (IF k = back THEN {d} ELSE {})
           /\ \A k \in Links : Items(chan[k]) \subseteq Items(chan'[k]) \cup {Gimme}
           /\ \A k \in Links : k # l => Items(chan[k]) \subseteq Items(chan'[k])
           /\ (\E s \in Nodes : Has(n, s)) => d \in Items(chan'[back])
    <2>1. PICK aged \in BOOLEAN :
             chan' = IF Known(n) = {} THEN Rest(m, n)
                     ELSE Sent(Rest(m, n), n, {m},
                               [kind |-> "truths", known |-> Known(n), aged |-> aged])
      BY DEF ReceiveGimme
    <2>. DEFINE d == [kind |-> "truths", known |-> Known(n), aged |-> aged]
    <2>2. d \in Data
      BY <1>1, KnownTyped DEF Data, Truths, NoneLostInv
    <2>3. \A s \in Nodes : About(d, s) <=> Has(n, s)
      BY <1>1, KnownTyped DEF About, NoneLostInv
    <2>4. CASE Known(n) = {}
      <3>1. \A s \in Nodes : ~Has(n, s)
        BY <1>1, <2>4, KnownTyped DEF NoneLostInv
      <3>2. chan' = Rest(m, n)
        BY <2>1, <2>4
      <3>3. /\ Items(chan[l]) = Items(chan'[l]) \cup {Gimme}
            /\ \A k \in Links \ {l} : chan'[k] = chan[k]
        BY <1>2, <3>2, RestItems DEF NoneLostInv
      <3>4. \A k \in Links :
               /\ Items(chan'[k]) \subseteq Items(chan[k])
               /\ Items(chan[k]) \subseteq Items(chan'[k]) \cup {Gimme}
               /\ k # l => Items(chan[k]) \subseteq Items(chan'[k])
        BY <3>3
      <3>. HIDE DEF d
      <3>. QED BY <2>3, <3>1, <3>4
    <2>5. CASE Known(n) # {}
      <3>. HIDE DEF d
      <3>1. chan' = Sent(Rest(m, n), n, {m}, d) /\ {m} \in SUBSET Nodes
        BY <1>1, <2>1, <2>5 DEF d
      <3>2. Received(l, {m}, d)
        BY <2>2, <3>1, ReceivedItems DEF NoneLostInv
      <3>3. \A k \in Links : k[1] = n /\ k[2] = m <=> k = back
        BY LinksTyped
      <3>. QED BY <1>1, <1>2, <2>3, <3>2, <3>3 DEF Received
    <2>. QED BY <2>4, <2>5
  <1>6. ASSUME NEW k \in Links, NEW s \in Nodes, Has(k[1], s)', ~Has(k[2], s)'
        PROVE  (\E e \in Items(chan'[k]) : About(e, s)) \/ Gimme \in Items(chan'[<<k[2], k[1]>>])
    <2>1. Has(k[1], s) /\ ~Has(k[2], s) /\ <<k[2], k[1]>> \in Links
      BY <1>3, <1>6, LinksTyped
    <2>2. CASE k = back
      BY <1>1, <1>5, <2>1, <2>2
    <2>3. CASE k # back
      <3>1. <<k[2], k[1]>> # l
        BY <1>1, <2>3, LinksTyped
      <3>2. CASE Gimme \in Items(chan[<<k[2], k[1]>>])
        BY <1>5, <2>1, <3>1, <3>2
      <3>3. ASSUME NEW e \in Items(chan[k]), About(e, s) PROVE e \in Items(chan'[k])
        BY <1>4, <1>5, <3>3
      <3>. QED BY <2>1, <3>2, <3>3 DEF NoneLostInv, Covered
    <2>. QED BY <2>2, <2>3
  <1>7. ASSUME NEW k \in Links, NEW s \in Nodes, NEW e \in Items(chan'[k]), About(e, s)
        PROVE  Has(k[1], s)'
    <2>1. CASE e \in Items(chan[k])
      <3>1. Has(k[1], s)
        BY <1>7, <2>1 DEF NoneLostInv, SendersKnow
      <3>. QED BY <1>3, <3>1, LinksTyped
    <2>2. CASE e \notin Items(chan[k])
      <3>1. k = back /\ e = d
        BY <1>5, <1>7, <2>2
      <3>. QED BY <1>1, <1>3, <1>5, <1>7, <3>1
    <2>. QED BY <2>1, <2>2
  <1>8. OwnKept' /\ CachesKnow'
    BY <1>2, <1>3 DEF NoneLostInv, OwnKept, CachesKnow
  <1>. QED BY <1>6, <1>7, <1>8 DEF NoneLostInv, Covered, SendersKnow

LEMMA NoneLostStep == NoneLostInv /\ [Next]_vars => NoneLostInv'
  <1>. SUFFICES ASSUME NoneLostInv, [Next]_vars PROVE NoneLostInv'
    OBVIOUS
  <1>0. TypeOK'
    BY TypedStep DEF NoneLostInv
  <1>1. ASSUME NEW l \in Links, Receive(l[1], l[2]) PROVE NoneLostInv'
    <2>1. chan[l] # <<>> /\ chan[<<l[1], l[2]>>] = chan[l]
      BY <1>1, LinksTyped DEF Receive, Drop, Take, ReceiveTruths, ReceiveResolve, ReceiveGimme
    <2>. QED BY <1>0, <1>1, <2>1, NoneLostDrop, NoneLostBroadcast, NoneLostGimme DEF Receive
  <1>2. ASSUME NEW n \in Nodes, NEW d \in seen[n], Prune(n, d) PROVE NoneLostInv'
    <2>1. UNCHANGED <<store, chan, used>> /\ \A x \in Nodes : seen'[x] \subseteq seen[x]
      BY <1>2 DEF Prune, NoneLostInv, TypeOK
    <2>2. CachesKnow'
      BY <2>1 DEF NoneLostInv, CachesKnow, Has
    <2>. QED BY <1>0, <2>1, <2>2 DEF NoneLostInv, OwnKept, Covered, SendersKnow, Has
  <1>3. CASE UNCHANGED vars
    BY <1>0, <1>3 DEF vars, NoneLostInv, OwnKept, Covered, SendersKnow, CachesKnow, Has
  <1>. QED
    BY <1>0, <1>1, <1>2, <1>3, NoneLostProvide, NoneLostAsk, NoneLostReconnect DEF Next

\* Along the channels, which lead everywhere, the truth is everywhere.
LEMMA NoneLostQuiet == NoneLostInv => NoTruthMissing
  <1>. SUFFICES ASSUME NoneLostInv, Quiet, NEW s \in Nodes, used[s] # <<>>
                PROVE  \A n \in Nodes : Has(n, s)
    BY DEF NoTruthMissing, Latest, Has
  <1>. DEFINE S == {n \in Nodes : Has(n, s)}
  <1>1. S \in SUBSET Nodes /\ s \in S
    BY DEF NoneLostInv, OwnKept
  <1>2. ASSUME NEW l \in Links, l[1] \in S PROVE l[2] \in S
    <2>1. Items(chan[l]) = {} /\ Items(chan[<<l[2], l[1]>>]) = {}
      BY LinksTyped, ItemsShort DEF Quiet
    <2>. QED BY <1>2, <2>1, LinksTyped DEF NoneLostInv, Covered
  <1>3. S = Nodes
    <2>. HIDE DEF S
    <2>. QED BY <1>1, <1>2, ConnectedAssumption
  <1>. QED BY <1>3

LEMMA NoneLostInit == Init => NoneLostInv
  <1>. SUFFICES ASSUME Init PROVE NoneLostInv
    OBVIOUS
  <1>1. TypeOK
    BY GossipAssumption DEF Init, TypeOK
  <1>2. \A l \in Links : Items(chan[l]) = {}
    BY ItemsShort DEF Init
  <1>3. \A n, s \in Nodes : ~Has(n, s)
    BY DEF Init, Has
  <1>. QED BY <1>1, <1>2, <1>3, LinksTyped
           DEF Init, NoneLostInv, OwnKept, Covered, SendersKnow, CachesKnow

\* The tables keep their form.
THEOREM GossipTyped == Spec => []TypeOK
  <1>1. NoneLostInv => TypeOK
    BY DEF NoneLostInv
  <1>. QED BY <1>1, NoneLostInit, NoneLostStep, PTL DEF Spec

\* However often channels break, with what they carry lost, and whatever the
\* order of truths, queries and requests on those that are set up again, no
\* signpost is left without a truth that was provided once all is quiet: each
\* end of a new channel asks the other for its table, as new_channel of
\* comms_agent.rb does.
THEOREM NoneLost == Spec => []NoTruthMissing
  BY NoneLostInit, NoneLostStep, NoneLostQuiet, PTL DEF Spec

-----------------------------------------------------------------------------
(* The last value stays.                                                   *)

\* What s sent when it provided its i-th value.
Datum(s, i) == [kind |-> "truths", known |-> {<<s, used[s][i]>>}, aged |-> FALSE]

\* n has come to the i-th value of s, or to a later one.
AtLeast(n, s, i) ==
    n = s \/ \E j \in DOMAIN used[s] : j >= i /\ store[n][s] = used[s][j]

\* In q, y does not come unless x came.
Before(q, x, y) == \A p \in DOMAIN q : q[p] = y => \E r \in 1 .. p - 1 : q[r] = x

NoValueTwice ==
    \A s \in Nodes : \A i, j \in DOMAIN used[s] : used[s][i] = used[s][j] => i = j

\* d is a query, or what a signpost sent when it provided a value.
FromSource(d) == d \in Resolve \/ \E s \in Nodes : \E i \in DOMAIN used[s] : d = Datum(s, i)

\* Where no channel broke, all truths are data that their sources sent.
FromSources ==
    /\ NoValueTwice
    /\ \A n, s \in Nodes :
           store[n][s] = Nothing \/ \E i \in DOMAIN used[s] : store[n][s] = used[s][i]
    /\ \A l \in Links : \A d \in Items(chan[l]) : FromSource(d)
    /\ \A n \in Nodes : \A d \in seen[n] : FromSource(d)

\* On each channel the data of one source are in order, and those that its sender
\* has come to are on it or have been.
InOrder ==
    \A l \in Links : \A s \in Nodes \ {l[2]} : \A i, j \in DOMAIN used[s] : i < j =>
        AtLeast(l[2], s, i) \/ Before(chan[l], Datum(s, i), Datum(s, j))
PassedOn ==
    \A l \in Links : \A s \in Nodes \ {l[2]} : \A i \in DOMAIN used[s] : AtLeast(l[1], s, i) =>
        AtLeast(l[2], s, i) \/ Datum(s, i) \in Items(chan[l])
SentByThose ==
    \A l \in Links, s \in Nodes : \A i \in DOMAIN used[s] :
        Datum(s, i) \in Items(chan[l]) => AtLeast(l[1], s, i)

\* The cache has what a signpost came to, as long as there are copies of it, and
\* nothing else: old data are never taken for new.
CacheRight ==
    \A s \in Nodes, n \in Nodes : \A i \in DOMAIN used[s] : n # s =>
        /\ Datum(s, i) \in seen[n] => AtLeast(n, s, i)
        /\ AtLeast(n, s, i) =>
               Datum(s, i) \in seen[n] \/ \A l \in Links : Datum(s, i) \notin Items(chan[l])

Ordered == FromSources /\ InOrder /\ PassedOn /\ SentByThose /\ CacheRight

OrderInv == TypeOK /\ (reconnects = 0 => Ordered)

LEMMA BeforeAppend ==
    ASSUME NEW q \in Seq(Data), NEW z \in Data, NEW x, NEW y,
           Before(q, x, y), z = y => x \in Items(q)
    PROVE  Before(Append(q, z), x, y)
  <1>. SUFFICES ASSUME NEW p \in 1 .. Len(q) + 1, Append(q, z)[p] = y
                PROVE  \E r \in 1 .. p - 1 : Append(q, z)[r] = x
    BY DEF Before
  <1>1. \A r \in 1 .. Len(q) : Append(q, z)[r] = q[r]
    OBVIOUS
  <1>2. CASE p \in 1 .. Len(q)
    <2>1. PICK r \in 1 .. p - 1 : q[r] = x
      BY <1>1, <1>2 DEF Before
    <2>. QED BY <1>1, <1>2, <2>1
  <1>3. CASE p = Len(q) + 1
    <2>1. PICK r \in 1 .. Len(q) : q[r] = x
      BY <1>3 DEF Items
    <2>. QED BY <1>1, <1>3, <2>1
  <1>. QED BY <1>2, <1>3

LEMMA BeforeTail ==
    ASSUME NEW q \in Seq(Data), q # <<>>, NEW x, NEW y, Before(q, x, y), Head(q) # x
    PROVE  Before(Tail(q), x, y)
  <1>1. /\ DOMAIN Tail(q) = 1 .. Len(q) - 1 /\ DOMAIN q = 1 .. Len(q) /\ Len(q) \in Nat
        /\ \A p \in 1 .. Len(q) - 1 : Tail(q)[p] = q[p + 1]
        /\ Head(q) = q[1]
    OBVIOUS
  <1>. SUFFICES ASSUME NEW p \in 1 .. Len(q) - 1, Tail(q)[p] = y
                PROVE  \E r \in 1 .. p - 1 : Tail(q)[r] = x
    BY <1>1 DEF Before
  <1>2. PICK r \in 1 .. p : q[r] = x
    <2>1. p + 1 \in DOMAIN q /\ q[p + 1] = y /\ p + 1 - 1 = p
      BY <1>1
    <2>. QED BY <2>1 DEF Before
  <1>3. r # 1 /\ r - 1 \in 1 .. p - 1 /\ Tail(q)[r - 1] = x
    BY <1>1, <1>2
  <1>. QED BY <1>3

LEMMA BeforeHead ==
    ASSUME NEW q \in Seq(Data), q # <<>>, NEW x, NEW y, Before(q, x, y)
    PROVE  Head(q) # y
  <1>1. 1 \in DOMAIN q /\ Head(q) = q[1]
    OBVIOUS
  <1>. QED BY <1>1 DEF Before

LEMMA BeforeAbsent ==
    ASSUME NEW q, NEW x, NEW y, y \notin Items(q)
    PROVE  Before(q, x, y)
  BY DEF Before, Items

LEMMA DatumTyped ==
    ASSUME TypeOK, NEW s \in Nodes, NEW i \in DOMAIN used[s]
    PROVE  /\ used[s][i] \in Values
           /\ Datum(s, i) \in Truths /\ Datum(s, i) \in Data
           /\ Datum(s, i) \notin Resolve /\ Datum(s, i) # Gimme
  <1>1. used[s][i] \in Values
    BY DEF TypeOK
  <1>2. Datum(s, i) \in Truths
    BY <1>1 DEF Datum, Truths
  <1>3. Datum(s, i) \notin Resolve
    BY DEF Datum, Resolve
  <1>. QED BY <1>1, <1>2, <1>3, DataKinds

LEMMA DatumIs ==
    ASSUME FromSources, NEW s \in Nodes, NEW i \in DOMAIN used[s],
           NEW t \in Nodes, NEW j \in DOMAIN used[t], Datum(s, i) = Datum(t, j)
    PROVE  s = t /\ i = j
  <1>1. Datum(s, i).known = {<<s, used[s][i]>>} /\ Datum(t, j).known = {<<t, used[t][j]>>}
    BY DEF Datum
  <1>2. <<s, used[s][i]>> = <<t, used[t][j]>>
    <2>1. <<s, used[s][i]>> \in {<<t, used[t][j]>>}
      BY <1>1
    <2>. QED BY <2>1
  <1>3. s = t /\ used[s][i] = used[s][j]
    BY <1>2
  <1>. QED BY <1>3 DEF FromSources, NoValueTwice

\* Learning a truth of one signpost.
LEMMA LearnOne ==
    ASSUME TypeOK, NEW n \in Nodes, NEW s \in Nodes, NEW v \in Values,
           store' = Learn(n, {<<s, v>>})
    PROVE  /\ store'[n][s] = v
           /\ \A x, t \in Nodes : ~(x = n /\ t = s) => store'[x][t] = store[x][t]
  <1>1. \A t \in Nodes : (\E w \in Values : <<t, w>> \in {<<s, v>>}) <=> t = s
    OBVIOUS
  <1>2. (CHOOSE w \in Values : <<s, w>> \in {<<s, v>>}) = v
    <2>1. \A w \in Values : <<s, w>> \in {<<s, v>>} <=> w = v
      OBVIOUS
    <2>2. \E w \in Values : <<s, w>> \in {<<s, v>>}
      OBVIOUS
    <2>3. (CHOOSE w \in Values : <<s, w>> \in {<<s, v>>}) \in {w \in Values : <<s, w>> \in {<<s, v>>}}
      BY <2>2
    <2>. QED BY <2>1, <2>3
  <1>. QED BY <1>1, <1>2 DEF Learn, TypeOK

\* Broadcasting what was received, in order.
LEMMA BroadcastSeqs ==
    ASSUME TypeOK, NEW l \in Links, chan[l] # <<>>, NEW d, d = Head(chan[l]),
           Broadcast(l[1], l[2], d)
    PROVE  /\ chan'[l] = Tail(chan[l])
           /\ \A k \in Links \ {l} :
                 \/ k[1] = l[2] /\ k[2] # l[1] /\ chan'[k] = Append(chan[k], d)
                 \/ ~(k[1] = l[2] /\ k[2] # l[1]) /\ chan'[k] = chan[k]
  <1>1. chan' = [k \in Links |-> IF k[1] = l[2] /\ k[2] \in Neighbours(l[2]) \ {l[1]}
                                 THEN Append(Rest(l[1], l[2])[k], d) ELSE Rest(l[1], l[2])[k]]
    BY DEF Broadcast, Sent
  <1>2. Rest(l[1], l[2])[l] = Tail(chan[l]) /\ \A k \in Links \ {l} : Rest(l[1], l[2])[k] = chan[k]
    BY LinksTyped DEF Rest, TypeOK
  <1>3. ASSUME NEW k \in Links, k[1] = l[2] PROVE k[2] \in Neighbours(l[2])
    <2>1. k[2] \in Nodes /\ <<l[2], k[2]>> = k
      BY <1>3, LinksTyped
    <2>. QED BY <2>1 DEF Neighbours
  <1>. QED BY <1>1, <1>2, <1>3, LinksTyped

\* What a signpost takes from a channel is the one next to what it has.
LEMMA NextInLine ==
    ASSUME TypeOK, FromSources, InOrder, CacheRight, NEW l \in Links, chan[l] # <<>>,
           NEW s \in Nodes, NEW i \in DOMAIN used[s], Head(chan[l]) = Datum(s, i),
           Datum(s, i) \notin seen[l[2]], l[2] # s
    PROVE  /\ ~AtLeast(l[2], s, i)
           /\ \A j \in DOMAIN used[s] : j < i => AtLeast(l[2], s, j)
  <1>1. l[2] \in Nodes
    BY LinksTyped
  <1>2. ~AtLeast(l[2], s, i)
    BY <1>1, HeadTyped DEF CacheRight
  <1>3. ASSUME NEW j \in DOMAIN used[s], j < i PROVE AtLeast(l[2], s, j)
    <2>1. chan[l] \in Seq(Data)
      BY DEF TypeOK
    <2>2. ~Before(chan[l], Datum(s, j), Datum(s, i))
      BY <2>1, BeforeHead
    <2>. QED BY <1>3, <2>2 DEF InOrder
  <1>. QED BY <1>2, <1>3

\* Receiving it, the signpost comes to it and no further.
LEMMA RankAfter ==
    ASSUME TypeOK, FromSources, InOrder, CacheRight, NEW l \in Links, chan[l] # <<>>,
           NEW s \in Nodes, NEW i \in DOMAIN used[s], Head(chan[l]) = Datum(s, i),
           ReceiveTruths(l[1], l[2], Datum(s, i))
    PROVE  /\ store'[l[2]][s] = used[s][i]
           /\ \A x, t \in Nodes : ~(x = l[2] /\ t = s) => store'[x][t] = store[x][t]
           /\ \A x, t \in Nodes : \A k \in DOMAIN used[t] :
                 AtLeast(x, t, k)' <=> AtLeast(x, t, k) \/ (x = l[2] /\ t = s /\ k = i)
  <1>. DEFINE n == l[2]
  <1>1. /\ n \in Nodes /\ used[s][i] \in Values /\ used' = used
        /\ Datum(s, i).known = {<<s, used[s][i]>>} /\ Datum(s, i) \notin seen[n]
        /\ store' = Learn(n, {<<s, used[s][i]>>})
    BY LinksTyped, DatumTyped DEF ReceiveTruths, Datum, Seen
  <1>2. /\ store'[n][s] = used[s][i]
        /\ \A x, t \in Nodes : ~(x = n /\ t = s) => store'[x][t] = store[x][t]
    BY <1>1, LearnOne
  <1>3. ASSUME NEW x \in Nodes, NEW t \in Nodes, NEW k \in DOMAIN used[t]
        PROVE  AtLeast(x, t, k)' <=> AtLeast(x, t, k) \/ (x = n /\ t = s /\ k = i)
    <2>1. CASE ~(x = n /\ t = s) \/ x = t
      BY <1>1, <1>2, <2>1 DEF AtLeast
    <2>2. CASE x = n /\ t = s /\ x # t
      <3>1. /\ ~AtLeast(n, s, i)
            /\ \A j \in DOMAIN used[s] : j < i => AtLeast(n, s, j)
        BY <1>1, <2>2, NextInLine
      <3>2. DOMAIN used[s] \subseteq Nat
        BY DEF TypeOK
      <3>3. AtLeast(n, s, k) <=> k < i
        <4>1. k >= i => ~AtLeast(n, s, k)
          BY <2>2, <3>1, <3>2 DEF AtLeast
        <4>. QED BY <2>2, <3>1, <3>2, <4>1
      <3>4. AtLeast(n, s, k)' <=> \E j \in DOMAIN used[s] : j >= k /\ used[s][i] = used[s][j]
        BY <1>1, <1>2, <2>2 DEF AtLeast
      <3>5. AtLeast(n, s, k)' <=> k <= i
        BY <2>2, <3>2, <3>4 DEF FromSources, NoValueTwice
      <3>. QED BY <2>2, <3>2, <3>3, <3>5
    <2>. QED BY <2>1, <2>2
  <1>. QED BY <1>2, <1>3

LEMMA OrderReceive ==
    ASSUME TypeOK, Ordered, NEW l \in Links, chan[l] # <<>>, NEW d, d = Head(chan[l]),
           ReceiveTruths(l[1], l[2], d) \/ ReceiveResolve(l[1], l[2], d)
    PROVE  Ordered'
  <1>. DEFINE m == l[1]
              n == l[2]
  <1>1. /\ m \in Nodes /\ n \in Nodes /\ m # n /\ d \in Data /\ d \in Items(chan[l])
        /\ Broadcast(m, n, d) /\ used' = used /\ d \notin seen[n]
    BY LinksTyped, HeadTyped DEF ReceiveTruths, ReceiveResolve, Seen
  <1>2. /\ FromSources /\ InOrder /\ PassedOn /\ SentByThose /\ CacheRight
        /\ FromSource(d)
    BY <1>1 DEF Ordered, FromSources
  <1>3. \A t \in Nodes : \A k \in DOMAIN used[t] : Datum(t, k)' = Datum(t, k)
    BY <1>1 DEF Datum
  <1>4. /\ \A x, t \in Nodes : \A k \in DOMAIN used[t] :
              AtLeast(x, t, k)' <=> AtLeast(x, t, k) \/ (x = n /\ d = Datum(t, k))
        /\ \A x, t \in Nodes :
              store'[x][t] = store[x][t] \/ \E k \in DOMAIN used[t] : store'[x][t] = used[t][k]
    <2>1. CASE d \in Resolve
      <3>1. d.kind = "resolve"
        BY <2>1, DataKinds
      <3>2. store' = store
        BY <3>1 DEF ReceiveTruths, ReceiveResolve
      <3>3. \A t \in Nodes : \A k \in DOMAIN used[t] : d # Datum(t, k)
        BY <2>1, DatumTyped
      <3>. QED BY <1>1, <3>2, <3>3 DEF AtLeast
    <2>2. ASSUME NEW s \in Nodes, NEW i \in DOMAIN used[s], d = Datum(s, i)
          PROVE  /\ \A x, t \in Nodes : \A k \in DOMAIN used[t] :
                        AtLeast(x, t, k)' <=> AtLeast(x, t, k) \/ (x = n /\ d = Datum(t, k))
                 /\ \A x, t \in Nodes :
                        store'[x][t] = store[x][t] \/ \E k \in DOMAIN used[t] : store'[x][t] = used[t][k]
      <3>1. ReceiveTruths(m, n, Datum(s, i))
        <4>1. d.kind = "truths"
          BY <2>2 DEF Datum
        <4>2. ReceiveTruths(m, n, d)
          BY <4>1 DEF ReceiveResolve
        <4>. QED BY <2>2, <4>2
      <3>2. /\ store'[n][s] = used[s][i]
            /\ \A x, t \in Nodes : ~(x = n /\ t = s) => store'[x][t] = store[x][t]
            /\ \A x, t \in Nodes : \A k \in DOMAIN used[t] :
                  AtLeast(x, t, k)' <=> AtLeast(x, t, k) \/ (x = n /\ t = s /\ k = i)
        BY <1>2, <2>2, <3>1, RankAfter
      <3>3. \A t \in Nodes : \A k \in DOMAIN used[t] : d = Datum(t, k) <=> t = s /\ k = i
        BY <1>2, <2>2, DatumIs
      <3>. QED BY <3>2, <3>3
    <2>. QED BY <1>2, <2>1, <2>2 DEF FromSource
  <1>5. \A t \in Nodes : \A j, k \in DOMAIN used[t] :
           d = Datum(t, k) /\ j < k => AtLeast(n, t, j)
    <2>. SUFFICES ASSUME NEW t \in Nodes, NEW j \in DOMAIN used[t], NEW k \in DOMAIN used[t],
                         d = Datum(t, k), j < k, n # t
                  PROVE  AtLeast(n, t, j)
      BY DEF AtLeast
    <2>. QED BY <1>1, <1>2, NextInLine
  <1>6. /\ \A k \in Links : Items(chan'[k]) \subseteq Items(chan[k]) \cup {d}
        /\ \A k \in Links : k[1] # n => Items(chan'[k]) \subseteq Items(chan[k])
        /\ \A k \in Links : Items(chan[k]) \subseteq Items(chan'[k]) \cup {d}
        /\ \A k \in Links : k # l => Items(chan[k]) \subseteq Items(chan'[k])
        /\ \A k \in Links : k[1] = n /\ k[2] # m => d \in Items(chan'[k])
    BY <1>1, BroadcastItems
  <1>7. seen \in [Nodes -> SUBSET (Truths \cup Resolve)] /\ seen' = [seen EXCEPT ![n] = @ \cup {d}]
    BY <1>1 DEF Broadcast, TypeOK
  <1>8. FromSources'
    <2>1. \A e : FromSource(e)' <=> FromSource(e)
      BY <1>1, <1>3 DEF FromSource
    <2>2. \A k \in Links : \A e \in Items(chan'[k]) : FromSource(e)
      BY <1>2, <1>6 DEF FromSources
    <2>3. \A x \in Nodes : \A e \in seen'[x] : FromSource(e)
      BY <1>2, <1>7 DEF FromSources
    <2>4. \A x, t \in Nodes :
             store'[x][t] = Nothing \/ \E k \in DOMAIN used[t] : store'[x][t] = used[t][k]
      BY <1>2, <1>4 DEF FromSources
    <2>5. NoValueTwice'
      BY <1>1, <1>2 DEF FromSources, NoValueTwice
    <2>. QED BY <1>1, <2>1, <2>2, <2>3, <2>4, <2>5 DEF FromSources
  <1>9. ASSUME NEW k \in Links, NEW t \in Nodes \ {k[2]}, NEW a \in DOMAIN used[t],
               NEW b \in DOMAIN used[t], a < b, ~AtLeast(k[2], t, a)'
        PROVE  Before(chan'[k], Datum(t, a), Datum(t, b))
    <2>0. /\ k[1] \in Nodes /\ k[2] \in Nodes
          /\ Datum(t, a) \in Data /\ Datum(t, b) \in Data /\ chan[k] \in Seq(Data)
      BY LinksTyped, DatumTyped DEF TypeOK
    <2>1. ~AtLeast(k[2], t, a) /\ ~(k[2] = n /\ d = Datum(t, a))
      BY <1>4, <1>9, <2>0
    <2>2. Before(chan[k], Datum(t, a), Datum(t, b))
      BY <1>2, <1>9, <2>1 DEF InOrder
    <2>3. CASE k = l
      <3>1. chan'[k] = Tail(chan[k])
        BY <1>1, <2>3, BroadcastSeqs
      <3>2. Head(chan[k]) # Datum(t, a) /\ chan[k] # <<>>
        BY <2>1, <2>3
      <3>. QED BY <2>0, <2>2, <3>1, <3>2, BeforeTail
    <2>4. CASE k # l /\ k[1] = n /\ k[2] # m
      <3>1. chan'[k] = Append(chan[k], d)
        BY <1>1, <2>4, BroadcastSeqs
      <3>2. d = Datum(t, b) => Datum(t, a) \in Items(chan[k])
        <4>1. SUFFICES ASSUME d = Datum(t, b) PROVE AtLeast(k[1], t, a)
          BY <1>2, <2>1 DEF PassedOn
        <4>. QED BY <1>5, <1>9, <2>4, <4>1
      <3>. QED BY <1>1, <2>0, <2>2, <3>1, <3>2, BeforeAppend
    <2>5. CASE k # l /\ ~(k[1] = n /\ k[2] # m)
      <3>1. chan'[k] = chan[k]
        BY <1>1, <2>5, BroadcastSeqs
      <3>. QED BY <2>2, <3>1
    <2>. QED BY <2>3, <2>4, <2>5
  <1>10. InOrder'
    BY <1>1, <1>3, <1>9 DEF InOrder
  <1>11. ASSUME NEW k \in Links, NEW t \in Nodes \ {k[2]}, NEW a \in DOMAIN used[t],
                AtLeast(k[1], t, a)', ~AtLeast(k[2], t, a)'
         PROVE  Datum(t, a) \in Items(chan'[k])
    <2>0. k[1] \in Nodes /\ k[2] \in Nodes
      BY LinksTyped
    <2>1. ~AtLeast(k[2], t, a) /\ ~(k[2] = n /\ d = Datum(t, a))
      BY <1>4, <1>11, <2>0
    <2>2. CASE AtLeast(k[1], t, a)
      <3>1. Datum(t, a) \in Items(chan[k])
        BY <1>2, <2>1, <2>2 DEF PassedOn
      <3>. QED BY <1>6, <2>1, <3>1
    <2>3. CASE ~AtLeast(k[1], t, a)
      <3>1. k[1] = n /\ d = Datum(t, a)
        BY <1>4, <1>11, <2>0, <2>3
      <3>2. AtLeast(m, t, a)
        BY <1>1, <1>2, <3>1 DEF SentByThose
      <3>3. k[2] # m
        BY <2>1, <3>2
      <3>. QED BY <1>6, <3>1, <3>3
    <2>. QED BY <2>2, <2>3
  <1>12. PassedOn'
    BY <1>1, <1>3, <1>11 DEF PassedOn
  <1>13. ASSUME NEW k \in Links, NEW t \in Nodes, NEW a \in DOMAIN used[t],
                Datum(t, a) \in Items(chan'[k])
         PROVE  AtLeast(k[1], t, a)'
    <2>0. k[1] \in Nodes
      BY LinksTyped
    <2>1. CASE Datum(t, a) \in Items(chan[k])
      <3>1. AtLeast(k[1], t, a)
        BY <1>2, <2>1 DEF SentByThose
      <3>. QED BY <1>4, <2>0, <3>1
    <2>2. CASE Datum(t, a) \notin Items(chan[k])
      <3>1. k[1] = n /\ d = Datum(t, a)
        BY <1>6, <1>13, <2>2
      <3>. QED BY <1>1, <1>4, <3>1
    <2>. QED BY <2>1, <2>2
  <1>14. SentByThose'
    BY <1>1, <1>3, <1>13 DEF SentByThose
  <1>15. ASSUME NEW t \in Nodes, NEW x \in Nodes, NEW a \in DOMAIN used[t], x # t
         PROVE  /\ Datum(t, a) \in seen'[x] => AtLeast(x, t, a)'
                /\ AtLeast(x, t, a)' =>
                       Datum(t, a) \in seen'[x] \/ \A k \in Links : Datum(t, a) \notin Items(chan'[k])
    <2>1. \A e : e \in seen'[x] <=> e \in seen[x] \/ (x = n /\ e = d)
      BY <1>7
    <2>2. /\ Datum(t, a) \in seen[x] => AtLeast(x, t, a)
          /\ AtLeast(x, t, a) =>
                 Datum(t, a) \in seen[x] \/ \A k \in Links : Datum(t, a) \notin Items(chan[k])
      BY <1>2, <1>15 DEF CacheRight
    <2>3. AtLeast(x, t, a)' <=> AtLeast(x, t, a) \/ (x = n /\ d = Datum(t, a))
      BY <1>4
    <2>4. (\A k \in Links : Datum(t, a) \notin Items(chan[k]))
              => \A k \in Links : Datum(t, a) \notin Items(chan'[k])
      BY <1>1, <1>6
    <2>. QED BY <2>1, <2>2, <2>3, <2>4
  <1>16. CacheRight'
    BY <1>1, <1>3, <1>15 DEF CacheRight
  <1>. QED BY <1>8, <1>10, <1>12, <1>14, <1>16 DEF Ordered

\* A step that neither provides nor learns, and drops only what has been come to.
OrderHolds ==
    /\ used' = used /\ store' = store
    /\ \A k \in Links : Items(chan'[k]) \subseteq Items(chan[k]) \cup Resolve
    /\ \A k \in Links : \A t \in Nodes \ {k[2]} : \A a \in DOMAIN used[t] : ~AtLeast(k[2], t, a) =>
          /\ Datum(t, a) \in Items(chan[k]) => Datum(t, a) \in Items(chan'[k])
          /\ \A b \in DOMAIN used[t] :
                Before(chan[k], Datum(t, a), Datum(t, b)) => Before(chan'[k], Datum(t, a), Datum(t, b))
    /\ \A x \in Nodes :
          /\ seen'[x] \subseteq seen[x] \cup Resolve
          /\ \A e \in seen[x] \ seen'[x] : \A k \in Links : e \notin Items(chan'[k])

LEMMA OrderKept ==
    ASSUME TypeOK, Ordered, OrderHolds
    PROVE  Ordered'
  <1>1. FromSources /\ InOrder /\ PassedOn /\ SentByThose /\ CacheRight
    BY DEF Ordered
  <1>2. used' = used /\ store' = store
    BY DEF OrderHolds
  <1>3. /\ \A t \in Nodes : \A a \in DOMAIN used[t] : Datum(t, a)' = Datum(t, a)
        /\ \A x, t \in Nodes : \A a \in DOMAIN used[t] : AtLeast(x, t, a)' <=> AtLeast(x, t, a)
    BY <1>2 DEF Datum, AtLeast
  <1>4. \A k \in Links : \A t \in Nodes : \A a \in DOMAIN used[t] :
           Datum(t, a) \in Items(chan'[k]) => Datum(t, a) \in Items(chan[k])
    BY DatumTyped DEF OrderHolds
  <1>5. FromSources'
    <2>1. \A e : FromSource(e)' <=> FromSource(e)
      BY <1>2, <1>3 DEF FromSource
    <2>2. \A e \in Resolve : FromSource(e)
      BY DEF FromSource
    <2>3. \A k \in Links : \A e \in Items(chan'[k]) : FromSource(e)
      BY <1>1, <2>2 DEF FromSources, OrderHolds
    <2>4. \A x \in Nodes : \A e \in seen'[x] : FromSource(e)
      BY <1>1, <2>2 DEF FromSources, OrderHolds
    <2>5. NoValueTwice'
      BY <1>1, <1>2 DEF FromSources, NoValueTwice
    <2>. QED BY <1>1, <1>2, <2>1, <2>3, <2>4, <2>5 DEF FromSources
  <1>6. ASSUME NEW k \in Links, NEW t \in Nodes \ {k[2]}, NEW a \in DOMAIN used[t],
               ~AtLeast(k[2], t, a)'
        PROVE  /\ \A b \in DOMAIN used[t] : a < b => Before(chan'[k], Datum(t, a), Datum(t, b))
               /\ AtLeast(k[1], t, a)' => Datum(t, a) \in Items(chan'[k])
    <2>1. ~AtLeast(k[2], t, a) /\ (AtLeast(k[1], t, a)' => AtLeast(k[1], t, a))
      BY <1>3, <1>6, LinksTyped
    <2>2. /\ \A b \in DOMAIN used[t] : a < b => Before(chan[k], Datum(t, a), Datum(t, b))
          /\ AtLeast(k[1], t, a) => Datum(t, a) \in Items(chan[k])
      BY <1>1, <2>1 DEF InOrder, PassedOn
    <2>. QED BY <2>1, <2>2 DEF OrderHolds
  <1>7. InOrder'
    BY <1>2, <1>3, <1>6 DEF InOrder
  <1>8. PassedOn'
    BY <1>2, <1>3, <1>6 DEF PassedOn
  <1>9. SentByThose'
    BY <1>1, <1>2, <1>3, <1>4, LinksTyped DEF SentByThose
  <1>10. ASSUME NEW t \in Nodes, NEW x \in Nodes, NEW a \in DOMAIN used[t], x # t
         PROVE  /\ Datum(t, a) \in seen'[x] => AtLeast(x, t, a)
                /\ AtLeast(x, t, a) =>
                       Datum(t, a) \in seen'[x] \/ \A k \in Links : Datum(t, a) \notin Items(chan'[k])
    <2>1. /\ Datum(t, a) \in seen[x] => AtLeast(x, t, a)
          /\ AtLeast(x, t, a) =>
                 Datum(t, a) \in seen[x] \/ \A k \in Links : Datum(t, a) \notin Items(chan[k])
      BY <1>1, <1>10 DEF CacheRight
    <2>2. Datum(t, a) \in seen'[x] => Datum(t, a) \in seen[x]
      BY DatumTyped DEF OrderHolds
    <2>3. Datum(t, a) \in seen[x] =>
              Datum(t, a) \in seen'[x] \/ \A k \in Links : Datum(t, a) \notin Items(chan'[k])
      BY DEF OrderHolds
    <2>. QED BY <1>4, <2>1, <2>2, <2>3
  <1>11. CacheRight'
    BY <1>2, <1>3, <1>10 DEF CacheRight
  <1>. QED BY <1>5, <1>7, <1>8, <1>9, <1>11 DEF Ordered

LEMMA SentSeqs ==
    ASSUME NEW n \in Nodes, NEW d, chan' = Sent(chan, n, Neighbours(n), d)
    PROVE  \A k \in Links : chan'[k] = IF k[1] = n THEN Append(chan[k], d) ELSE chan[k]
  <1>1. ASSUME NEW k \in Links, k[1] = n PROVE k[2] \in Neighbours(n)
    <2>1. k[2] \in Nodes /\ <<n, k[2]>> = k
      BY <1>1, LinksTyped
    <2>. QED BY <2>1 DEF Neighbours
  <1>. QED BY <1>1 DEF Sent

LEMMA OrderAsk ==
    ASSUME TypeOK, Ordered, NEW r \in Nodes, NEW s \in Nodes, Ask(r, s)
    PROVE  Ordered'
  <1>. DEFINE d == [kind |-> "resolve", at |-> s]
  <1>1. /\ used' = used /\ store' = store /\ d \in Resolve /\ d \in Data
        /\ chan' = Sent(chan, r, Neighbours(r), d)
        /\ seen' = [seen EXCEPT ![r] = @ \cup {d}]
    BY DEF Ask, Data, Resolve
  <1>. HIDE DEF d
  <1>2. \A k \in Links : Items(chan'[k]) \subseteq Items(chan[k]) \cup {d}
                         /\ Items(chan[k]) \subseteq Items(chan'[k])
    BY <1>1, SentToAll
  <1>3. ASSUME NEW k \in Links, NEW t \in Nodes, NEW a \in DOMAIN used[t], NEW b \in DOMAIN used[t],
               Before(chan[k], Datum(t, a), Datum(t, b))
        PROVE  Before(chan'[k], Datum(t, a), Datum(t, b))
    <2>1. chan[k] \in Seq(Data) /\ d # Datum(t, b)
      BY <1>1, DatumTyped DEF TypeOK
    <2>2. Before(Append(chan[k], d), Datum(t, a), Datum(t, b))
      BY <1>1, <1>3, <2>1, BeforeAppend
    <2>. QED BY <1>1, <1>3, <2>2, SentSeqs
  <1>4. \A x \in Nodes : seen'[x] \subseteq seen[x] \cup {d} /\ seen[x] \subseteq seen'[x]
    BY <1>1 DEF TypeOK
  <1>5. OrderHolds
    BY <1>1, <1>2, <1>3, <1>4 DEF OrderHolds
  <1>. QED BY <1>5, OrderKept

LEMMA OrderDrop ==
    ASSUME TypeOK, Ordered, NEW l \in Links, Drop(l[1], l[2])
    PROVE  Ordered'
  <1>. DEFINE d == Head(chan[l])
  <1>1. /\ chan[l] # <<>> /\ chan' = Rest(l[1], l[2]) /\ d \in seen[l[2]]
        /\ used' = used /\ store' = store /\ seen' = seen
    BY LinksTyped DEF Drop, Take, Seen
  <1>2. /\ Items(chan[l]) = Items(chan'[l]) \cup {d}
        /\ \A k \in Links \ {l} : chan'[k] = chan[k]
        /\ chan'[l] = Tail(chan[l])
    <2>1. Rest(l[1], l[2]) = [chan EXCEPT ![l] = Tail(chan[l])]
      BY LinksTyped DEF Rest
    <2>2. chan'[l] = Tail(chan[l])
      BY <1>1, <2>1 DEF TypeOK
    <2>. QED BY <1>1, <2>2, RestItems
  <1>3. \A t \in Nodes \ {l[2]} : \A a \in DOMAIN used[t] : d = Datum(t, a) => AtLeast(l[2], t, a)
    BY <1>1, LinksTyped DEF Ordered, CacheRight
  <1>. HIDE DEF d
  <1>4. ASSUME NEW k \in Links, NEW t \in Nodes \ {k[2]}, NEW a \in DOMAIN used[t],
               ~AtLeast(k[2], t, a)
        PROVE  /\ Datum(t, a) \in Items(chan[k]) => Datum(t, a) \in Items(chan'[k])
               /\ \A b \in DOMAIN used[t] :
                     Before(chan[k], Datum(t, a), Datum(t, b))
                         => Before(chan'[k], Datum(t, a), Datum(t, b))
    <2>1. CASE k # l
      BY <1>2, <2>1
    <2>2. CASE k = l
      <3>1. Datum(t, a) # d /\ chan[k] \in Seq(Data)
        BY <1>3, <1>4, <2>2 DEF TypeOK
      <3>2. ASSUME NEW b \in DOMAIN used[t], Before(chan[k], Datum(t, a), Datum(t, b))
            PROVE  Before(chan'[k], Datum(t, a), Datum(t, b))
        BY <1>1, <1>2, <2>2, <3>1, <3>2, BeforeTail DEF d
      <3>. QED BY <1>2, <2>2, <3>1, <3>2
    <2>. QED BY <2>1, <2>2
  <1>5. \A k \in Links : Items(chan'[k]) \subseteq Items(chan[k])
    BY <1>2
  <1>6. OrderHolds
    BY <1>1, <1>4, <1>5 DEF OrderHolds
  <1>. QED BY <1>6, OrderKept

LEMMA OrderPrune ==
    ASSUME TypeOK, Ordered, NEW n \in Nodes, NEW d \in seen[n], Prune(n, d)
    PROVE  Ordered'
  <1>1. /\ used' = used /\ store' = store /\ chan' = chan
        /\ \A k \in Links : d \notin Items(chan[k])
    BY DEF Prune, Items
  <1>2. \A x \in Nodes : seen'[x] \subseteq seen[x] /\ seen[x] \ seen'[x] \subseteq {d}
    BY DEF Prune, TypeOK
  <1>3. OrderHolds
    BY <1>1, <1>2 DEF OrderHolds
  <1>. QED BY <1>3, OrderKept

LEMMA OrderProvide ==
    ASSUME TypeOK, Ordered, Fresh, NEW n \in Nodes, NEW v \in Values, Provide(n, v)
    PROVE  Ordered'
  <1>. PICK N \in Nat : N = Len(used[n]) + 1
    BY DEF TypeOK
  <1>. DEFINE D == [kind |-> "truths", known |-> {<<n, v>>}, aged |-> FALSE]
  <1>1. /\ FromSources /\ InOrder /\ PassedOn /\ SentByThose /\ CacheRight
        /\ used' = [used EXCEPT ![n] = Append(@, v)] /\ store' = Learn(n, {<<n, v>>})
        /\ seen' = seen /\ chan' = Sent(chan, n, Neighbours(n), D)
        /\ \A i \in DOMAIN used[n] : used[n][i] # v
    BY DEF Ordered, Provide
  <1>2. /\ \A t \in Nodes : DOMAIN used[t] \subseteq Nat /\ DOMAIN used'[t] \subseteq Nat
        /\ \A t \in Nodes \ {n} : used'[t] = used[t]
        /\ DOMAIN used'[n] = DOMAIN used[n] \cup {N} /\ used'[n][N] = v
        /\ \A i \in DOMAIN used[n] : i < N /\ used'[n][i] = used[n][i]
    <2>1. used \in [Nodes -> Seq(Values)] /\ used[n] \in Seq(Values)
      BY DEF TypeOK
    <2>2. used'[n] = Append(used[n], v) /\ \A t \in Nodes \ {n} : used'[t] = used[t]
      BY <1>1, <2>1
    <2>3. /\ \A t \in Nodes : DOMAIN used[t] \subseteq Nat
          /\ DOMAIN used[n] = 1 .. Len(used[n]) /\ Len(used[n]) \in Nat
      BY <2>1
    <2>4. /\ DOMAIN Append(used[n], v) = 1 .. N /\ Append(used[n], v)[N] = v
          /\ \A i \in 1 .. Len(used[n]) : Append(used[n], v)[i] = used[n][i]
      BY <2>1
    <2>. QED BY <2>2, <2>3, <2>4
  <1>3. store'[n][n] = v /\ \A x, t \in Nodes : ~(x = n /\ t = n) => store'[x][t] = store[x][t]
    BY <1>1, LearnOne
  <1>4. D \in Data /\ D.kind = "truths" /\ D = Datum(n, N)'
    BY <1>2 DEF Data, Truths, Datum
  <1>5. \A t \in Nodes : \A a \in DOMAIN used[t] : Datum(t, a)' = Datum(t, a) /\ Datum(t, a) # D
    <2>1. ASSUME NEW t \in Nodes, NEW a \in DOMAIN used[t], Datum(t, a) = D PROVE FALSE
      <3>1. Datum(t, a).known = {<<t, used[t][a]>>} /\ D.known = {<<n, v>>}
        BY DEF Datum
      <3>2. <<t, used[t][a]>> \in {<<n, v>>}
        BY <2>1, <3>1
      <3>. QED BY <1>1, <3>2
    <2>2. \A t \in Nodes : \A a \in DOMAIN used[t] : used'[t][a] = used[t][a]
      BY <1>2
    <2>. QED BY <2>1, <2>2 DEF Datum
  <1>. HIDE DEF D
  <1>6. /\ ~FromSource(D)
        /\ \A k \in Links : D \notin Items(chan[k])
        /\ \A x \in Nodes : D \notin seen[x]
    <2>1. D \notin Resolve
      BY <1>4, DataKinds
    <2>2. ~FromSource(D)
      BY <1>5, <2>1 DEF FromSource
    <2>. QED BY <1>1, <2>2 DEF FromSources
  <1>7. /\ \A x, t \in Nodes : \A a \in DOMAIN used[t] : AtLeast(x, t, a)' <=> AtLeast(x, t, a)
        /\ \A x \in Nodes : AtLeast(x, n, N)' <=> x = n
    <2>1. ASSUME NEW x \in Nodes, NEW t \in Nodes \ {n}, NEW a \in DOMAIN used[t]
          PROVE  AtLeast(x, t, a)' <=> AtLeast(x, t, a)
      BY <1>2, <1>3 DEF AtLeast
    <2>2. ASSUME NEW x \in Nodes \ {n}
          PROVE  /\ store'[x][n] = store[x][n] /\ store[x][n] # v
                 /\ \A j \in DOMAIN used'[n] :
                       store'[x][n] = used'[n][j] <=> j \in DOMAIN used[n] /\ store[x][n] = used[n][j]
      <3>1. store'[x][n] = store[x][n]
        BY <1>3
      <3>2. store[x][n] = Nothing \/ \E i \in DOMAIN used[n] : store[x][n] = used[n][i]
        BY <1>1 DEF FromSources
      <3>3. store[x][n] # v
        BY <1>1, <3>2, GossipAssumption
      <3>. QED BY <1>2, <3>1, <3>3
    <2>3. ASSUME NEW x \in Nodes, NEW a \in DOMAIN used[n]
          PROVE  AtLeast(x, n, a)' <=> AtLeast(x, n, a)
      BY <1>2, <2>2 DEF AtLeast
    <2>4. ASSUME NEW x \in Nodes PROVE AtLeast(x, n, N)' <=> x = n
      <3>1. N \in Nat /\ \A j \in DOMAIN used[n] : ~(j >= N)
        BY <1>2
      <3>. QED BY <1>2, <2>2, <3>1 DEF AtLeast
    <2>. QED BY <2>1, <2>3, <2>4
  <1>8. /\ \A k \in Links : chan'[k] = IF k[1] = n THEN Append(chan[k], D) ELSE chan[k]
        /\ \A k \in Links : Items(chan[k]) \subseteq Items(chan'[k])
        /\ \A k \in Links : \A e \in Items(chan'[k]) : e \in Items(chan[k]) \/ e = D
        /\ \A k \in Links : D \in Items(chan'[k]) <=> k[1] = n
    <2>1. chan' = Sent(chan, n, Neighbours(n), D)
      BY <1>1
    <2>2. \A k \in Links : chan'[k] = IF k[1] = n THEN Append(chan[k], D) ELSE chan[k]
      BY <2>1, SentSeqs
    <2>3. \A k \in Links : /\ k[1] = n => Items(chan'[k]) = Items(chan[k]) \cup {D}
                           /\ k[1] # n => chan'[k] = chan[k]
      BY <1>4, <2>1, SentToAll
    <2>. QED BY <1>6, <2>2, <2>3
  <1>9. \A t \in Nodes : \A a \in DOMAIN used'[t] : a \in DOMAIN used[t] \/ (t = n /\ a = N)
    BY <1>2
  <1>10. FromSources'
    <2>1. \A t \in Nodes : \A a \in DOMAIN used[t] : a \in DOMAIN used'[t] /\ used'[t][a] = used[t][a]
      BY <1>2
    <2>2. \A e : FromSource(e) \/ e = D => FromSource(e)'
      <3>1. FromSource(D)'
        BY <1>2, <1>4 DEF FromSource
      <3>. QED BY <1>5, <2>1, <3>1 DEF FromSource
    <2>3. \A k \in Links : \A e \in Items(chan'[k]) : FromSource(e)'
      <3>1. \A k \in Links : \A e \in Items(chan[k]) : FromSource(e)
        BY <1>1 DEF FromSources
      <3>. QED BY <1>8, <2>2, <3>1
    <2>4. \A x \in Nodes : \A e \in seen'[x] : FromSource(e)'
      BY <1>1, <2>2 DEF FromSources
    <2>5. \A x, t \in Nodes :
             store'[x][t] = Nothing \/ \E i \in DOMAIN used'[t] : store'[x][t] = used'[t][i]
      <3>1. \A x, t \in Nodes :
               store[x][t] = Nothing \/ \E i \in DOMAIN used[t] : store[x][t] = used[t][i]
        BY <1>1 DEF FromSources
      <3>. QED BY <1>2, <1>3, <2>1, <3>1
    <2>6. NoValueTwice'
      <3>1. \A t \in Nodes : \A i, j \in DOMAIN used[t] : used[t][i] = used[t][j] => i = j
        BY <1>1 DEF FromSources, NoValueTwice
      <3>2. \A t \in Nodes : \A i, j \in DOMAIN used'[t] : used'[t][i] = used'[t][j] => i = j
        BY <1>1, <1>2, <3>1
      <3>. QED BY <3>2 DEF NoValueTwice
    <2>. QED BY <2>3, <2>4, <2>5, <2>6 DEF FromSources
  <1>11. ASSUME NEW k \in Links, NEW t \in Nodes \ {k[2]}, NEW a \in DOMAIN used'[t],
                NEW b \in DOMAIN used'[t], a < b, ~AtLeast(k[2], t, a)'
         PROVE  Before(chan'[k], Datum(t, a)', Datum(t, b)')
    <2>1. a \in DOMAIN used[t]
      BY <1>2, <1>9, <1>11
    <2>2. /\ k[1] \in Nodes /\ k[2] \in Nodes /\ chan[k] \in Seq(Data)
          /\ Datum(t, a)' = Datum(t, a) /\ ~AtLeast(k[2], t, a)
      BY <1>5, <1>7, <1>11, <2>1, LinksTyped DEF TypeOK
    <2>3. CASE b \in DOMAIN used[t]
      <3>1. Before(chan[k], Datum(t, a), Datum(t, b)) /\ Datum(t, b)' = Datum(t, b) /\ D # Datum(t, b)
        BY <1>1, <1>5, <1>11, <2>1, <2>2, <2>3 DEF InOrder
      <3>2. Before(Append(chan[k], D), Datum(t, a), Datum(t, b))
        BY <1>4, <2>2, <3>1, BeforeAppend
      <3>. QED BY <1>8, <2>2, <3>1, <3>2
    <2>4. CASE t = n /\ b = N
      <3>1. Datum(t, b)' = D /\ Before(chan[k], Datum(t, a), D)
        BY <1>4, <1>6, <2>4, BeforeAbsent
      <3>2. k[1] = n => Datum(t, a) \in Items(chan[k])
        <4>1. k[1] = n => AtLeast(k[1], t, a)
          BY <2>4 DEF AtLeast
        <4>. QED BY <1>1, <2>1, <2>2, <4>1 DEF PassedOn
      <3>3. k[1] = n => Before(Append(chan[k], D), Datum(t, a), D)
        BY <1>4, <2>2, <3>1, <3>2, BeforeAppend
      <3>. QED BY <1>8, <2>2, <3>1, <3>3
    <2>. QED BY <1>9, <2>3, <2>4
  <1>12. InOrder'
    BY <1>11 DEF InOrder
  <1>13. ASSUME NEW k \in Links, NEW t \in Nodes \ {k[2]}, NEW a \in DOMAIN used'[t],
                AtLeast(k[1], t, a)', ~AtLeast(k[2], t, a)'
         PROVE  Datum(t, a)' \in Items(chan'[k])
    <2>0. k[1] \in Nodes /\ k[2] \in Nodes
      BY LinksTyped
    <2>1. CASE a \in DOMAIN used[t]
      <3>1. Datum(t, a) \in Items(chan[k])
        BY <1>1, <1>7, <1>13, <2>0, <2>1 DEF PassedOn
      <3>. QED BY <1>5, <1>8, <2>1, <3>1
    <2>2. CASE t = n /\ a = N
      BY <1>4, <1>7, <1>8, <1>13, <2>0, <2>2
    <2>. QED BY <1>9, <2>1, <2>2
  <1>14. PassedOn'
    BY <1>13 DEF PassedOn
  <1>15. ASSUME NEW k \in Links, NEW t \in Nodes, NEW a \in DOMAIN used'[t],
                Datum(t, a)' \in Items(chan'[k])
         PROVE  AtLeast(k[1], t, a)'
    <2>0. k[1] \in Nodes
      BY LinksTyped
    <2>1. CASE a \in DOMAIN used[t]
      <3>1. Datum(t, a) \in Items(chan[k])
        BY <1>5, <1>8, <1>15, <2>1
      <3>. QED BY <1>1, <1>7, <2>0, <2>1, <3>1 DEF SentByThose
    <2>2. CASE t = n /\ a = N
      BY <1>4, <1>6, <1>7, <1>8, <1>15, <2>0, <2>2
    <2>. QED BY <1>9, <2>1, <2>2
  <1>16. SentByThose'
    BY <1>15 DEF SentByThose
  <1>17. ASSUME NEW t \in Nodes, NEW x \in Nodes, NEW a \in DOMAIN used'[t], x # t
         PROVE  /\ Datum(t, a)' \in seen'[x] => AtLeast(x, t, a)'
                /\ AtLeast(x, t, a)' =>
                       \/ Datum(t, a)' \in seen'[x]
                       \/ \A k \in Links : Datum(t, a)' \notin Items(chan'[k])
    <2>1. CASE a \in DOMAIN used[t]
      <3>1. /\ Datum(t, a) \in seen[x] => AtLeast(x, t, a)
            /\ AtLeast(x, t, a) =>
                   Datum(t, a) \in seen[x] \/ \A k \in Links : Datum(t, a) \notin Items(chan[k])
        BY <1>1, <1>17, <2>1 DEF CacheRight
      <3>2. Datum(t, a)' = Datum(t, a) /\ Datum(t, a) # D /\ (AtLeast(x, t, a)' <=> AtLeast(x, t, a))
        BY <1>5, <1>7, <2>1
      <3>3. seen' = seen
        BY <1>1
      <3>. QED BY <1>8, <3>1, <3>2, <3>3
    <2>2. CASE t = n /\ a = N
      BY <1>1, <1>4, <1>6, <1>7, <1>17, <2>2
    <2>. QED BY <1>9, <2>1, <2>2
  <1>18. CacheRight'
    BY <1>17 DEF CacheRight
  <1>. QED BY <1>10, <1>12, <1>14, <1>16, <1>18 DEF Ordered

\* Without a break nobody asks for everything.
LEMMA OrderNoGimme ==
    ASSUME TypeOK, Ordered, NEW l \in Links, chan[l] # <<>>
    PROVE  Head(chan[l]) # Gimme
  <1>1. FromSource(Head(chan[l]))
    BY HeadTyped DEF Ordered, FromSources
  <1>. QED BY <1>1, DatumTyped, DataKinds DEF FromSource

LEMMA OrderStep == Fresh /\ OrderInv /\ [Next]_vars => OrderInv'
  <1>. SUFFICES ASSUME Fresh, OrderInv, [Next]_vars PROVE OrderInv'
    OBVIOUS
  <1>1. TypeOK /\ TypeOK' /\ reconnects \in Nat
    <2>1. TypeOK /\ reconnects \in Nat
      BY GossipAssumption DEF OrderInv, TypeOK
    <2>. QED BY <2>1, TypedStep
  <1>. SUFFICES ASSUME reconnects' = 0 PROVE Ordered'
    BY <1>1 DEF OrderInv
  <1>2. ASSUME NEW n \in Nodes, NEW v \in Values, Provide(n, v) PROVE Ordered'
    <2>1. Ordered
      BY <1>2 DEF Provide, OrderInv
    <2>. QED BY <1>1, <1>2, <2>1, OrderProvide
  <1>3. ASSUME NEW r \in Nodes, NEW s \in Nodes, Ask(r, s) PROVE Ordered'
    <2>1. Ordered
      BY <1>3 DEF Ask, OrderInv
    <2>. QED BY <1>1, <1>3, <2>1, OrderAsk
  <1>4. ASSUME NEW l \in Links, Receive(l[1], l[2]) PROVE Ordered'
    <2>1. Ordered
      BY <1>4 DEF Receive, Drop, ReceiveTruths, ReceiveResolve, ReceiveGimme, OrderInv
    <2>2. CASE Drop(l[1], l[2])
      BY <1>1, <2>1, <2>2, OrderDrop
    <2>3. ASSUME NEW d, d = Head(chan[l]), Take(l[1], l[2], d),
                 \/ ReceiveTruths(l[1], l[2], d)
                 \/ ReceiveResolve(l[1], l[2], d)
                 \/ ReceiveGimme(l[1], l[2], d)
          PROVE  Ordered'
      <3>1. chan[l] # <<>> /\ d \in Data /\ d # Gimme
        BY <1>1, <2>1, <2>3, LinksTyped, HeadTyped, OrderNoGimme DEF Take
      <3>2. d.kind # "gimme_truths"
        BY <3>1, DataKinds
      <3>3. ReceiveTruths(l[1], l[2], d) \/ ReceiveResolve(l[1], l[2], d)
        BY <2>3, <3>2 DEF ReceiveGimme
      <3>. QED BY <1>1, <2>1, <2>3, <3>1, <3>3, OrderReceive
    <2>. QED BY <1>4, <2>2, <2>3, LinksTyped
             DEF Receive, ReceiveTruths, ReceiveResolve, ReceiveGimme, Take
  <1>5. ASSUME NEW l \in Links, Reconnect(l[1], l[2]) PROVE FALSE
    BY <1>1, <1>5 DEF Reconnect
  <1>6. ASSUME NEW n \in Nodes, NEW d \in seen[n], Prune(n, d) PROVE Ordered'
    <2>1. Ordered
      BY <1>6 DEF Prune, OrderInv
    <2>. QED BY <1>1, <1>6, <2>1, OrderPrune
  <1>7. CASE UNCHANGED vars
    <2>1. Ordered /\ used' = used /\ store' = store /\ chan' = chan /\ seen' = seen
      BY <1>7 DEF vars, OrderInv
    <2>2. OrderHolds
      BY <2>1 DEF OrderHolds
    <2>. QED BY <1>1, <2>1, <2>2, OrderKept
  <1>. QED BY <1>2, <1>3, <1>4, <1>5, <1>6, <1>7 DEF Next

LEMMA OrderQuiet == OrderInv => OthersConverge
  <1>. SUFFICES ASSUME OrderInv, Quiet, reconnects = 0,
                       NEW n \in Nodes, NEW s \in Nodes, n # s
                PROVE  store[n][s] = Latest(s)
    BY DEF OthersConverge
  <1>1. TypeOK /\ FromSources /\ PassedOn
    BY DEF OrderInv, Ordered
  <1>2. CASE used[s] = <<>>
    <2>1. DOMAIN used[s] = {}
      BY <1>2
    <2>2. store[n][s] = Nothing
      BY <1>1, <2>1 DEF FromSources
    <2>. QED BY <1>2, <2>2 DEF Latest
  <1>3. CASE used[s] # <<>>
    <2>. DEFINE last == Len(used[s])
                Come == {x \in Nodes : AtLeast(x, s, last)}
    <2>1. last \in DOMAIN used[s] /\ \A j \in DOMAIN used[s] : j >= last => j = last
      <3>1. used[s] \in Seq(Values)
        BY <1>1 DEF TypeOK
      <3>. QED BY <1>3, <3>1
    <2>. HIDE DEF last
    <2>2. s \in Come
      BY DEF AtLeast
    <2>3. ASSUME NEW l \in Links, l[1] \in Come PROVE l[2] \in Come
      <3>1. Datum(s, last) \notin Items(chan[l])
        BY ItemsShort DEF Quiet
      <3>2. l[2] = s \/ AtLeast(l[2], s, last)
        BY <1>1, <2>1, <2>3, <3>1, LinksTyped DEF PassedOn
      <3>. QED BY <3>2, LinksTyped DEF AtLeast
    <2>4. Come = Nodes
      <3>1. Come \in SUBSET Nodes /\ Come # {}
        BY <2>2
      <3>. HIDE DEF Come
      <3>. QED BY <2>3, <3>1, ConnectedAssumption
    <2>5. store[n][s] = used[s][last]
      BY <2>1, <2>4 DEF AtLeast
    <2>. QED BY <1>3, <2>5 DEF Latest, last
  <1>. QED BY <1>2, <1>3

LEMMA OrderInit == Init => OrderInv
  <1>. SUFFICES ASSUME Init PROVE OrderInv
    OBVIOUS
  <1>1. TypeOK
    BY GossipAssumption DEF Init, TypeOK
  <1>2. /\ \A t \in Nodes : DOMAIN used[t] = {}
        /\ \A x, t \in Nodes : store[x][t] = Nothing
        /\ \A l \in Links : Items(chan[l]) = {}
        /\ \A x \in Nodes : seen[x] = {}
    BY ItemsShort DEF Init
  <1>3. FromSources
    BY <1>2 DEF FromSources, NoValueTwice
  <1>4. InOrder /\ PassedOn
    BY <1>2 DEF InOrder, PassedOn
  <1>5. SentByThose /\ CacheRight
    BY <1>2 DEF SentByThose, CacheRight
  <1>. QED BY <1>1, <1>3, <1>4, <1>5 DEF OrderInv, Ordered

\* When nothing is under way and no channel has broken, every other signpost has
\* the last value each one provided, where a signpost provides no value twice.
THEOREM LastValueStays == Fresh /\ Spec => []OthersConverge
  <1>. SUFFICES ASSUME Fresh PROVE Spec => []OthersConverge
    OBVIOUS
  <1>1. Init => OrderInv
    BY OrderInit
  <1>2. OrderInv /\ [Next]_vars => OrderInv'
    BY OrderStep
  <1>3. OrderInv => OthersConverge
    BY OrderQuiet
  <1>. QED BY <1>1, <1>2, <1>3, PTL DEF Spec

-----------------------------------------------------------------------------
(* The tables are copies, as Replicas has them.                            *)

\* The first of k provided the second.
Genuine(provided, k) == \E i \in DOMAIN provided[k[1]] : provided[k[1]][i] = k[2]

Stored == \A n, s \in Nodes : Has(n, s) => Genuine(used, <<s, store[n][s]>>)

Carried ==
    \A l \in Links : \A d \in Items(chan[l]) : d.kind = "truths" => \A k \in d.known : Genuine(used, k)

GenuineInv == TypeOK /\ Stored /\ Carried

\* What a signpost learns is what it had or what it was told.
LEMMA LearnedValues ==
    ASSUME TypeOK, NEW n \in Nodes, NEW known \in SUBSET (Nodes \X Values),
           store' = Learn(n, known), NEW x \in Nodes, NEW s \in Nodes,
           store'[x][s] # store[x][s]
    PROVE  x = n /\ <<s, store'[x][s]>> \in known
  <1>. DEFINE Learnt(t) == \E v \in Values : <<t, v>> \in known
              Value(t) == CHOOSE v \in Values : <<t, v>> \in known
  <1>1. \A t \in Nodes : Learnt(t) => <<t, Value(t)>> \in known
    OBVIOUS
  <1>2. store' = [store EXCEPT ![n] = [t \in Nodes |-> IF Learnt(t) THEN Value(t) ELSE @[t]]]
    BY DEF Learn
  <1>. HIDE DEF Learnt, Value
  <1>. QED BY <1>1, <1>2 DEF TypeOK

\* After a step in which used only grows, and tables and channels have of new pairs
\* only those that are genuine.
LEMMA GenuineKept ==
    ASSUME GenuineInv, TypeOK',
           \A k \in Nodes \X Values : Genuine(used, k) => Genuine(used', k),
           \A n, s \in Nodes : store'[n][s] # store[n][s] => Genuine(used', <<s, store'[n][s]>>),
           \A l \in Links : \A d \in Items(chan'[l]) :
               d \in Items(chan[l]) \/ (d.kind = "truths" => \A k \in d.known : Genuine(used', k))
    PROVE  GenuineInv'
  <1>1. ASSUME NEW n \in Nodes, NEW s \in Nodes, store'[n][s] # Nothing
        PROVE  Genuine(used', <<s, store'[n][s]>>)
    <2>1. CASE store'[n][s] = store[n][s]
      <3>1. Genuine(used, <<s, store[n][s]>>) /\ <<s, store[n][s]>> \in Nodes \X Values
        BY <1>1, <2>1 DEF GenuineInv, Stored, Has, TypeOK
      <3>. QED BY <2>1, <3>1
    <2>. QED BY <2>1
  <1>2. ASSUME NEW l \in Links, NEW d \in Items(chan'[l]), d.kind = "truths", NEW k \in d.known
        PROVE  Genuine(used', k)
    <2>1. CASE d \in Items(chan[l])
      <3>1. d \in Truths
        <4>1. d \in Data
          BY <2>1 DEF GenuineInv, TypeOK, Items
        <4>. QED BY <1>2, <4>1, DataKinds
      <3>2. k \in Nodes \X Values
        BY <3>1 DEF Truths
      <3>3. Genuine(used, k)
        BY <1>2, <2>1 DEF GenuineInv, Carried
      <3>. QED BY <3>2, <3>3
    <2>. QED BY <1>2, <2>1
  <1>3. Stored'
    BY <1>1 DEF Stored, Has
  <1>4. Carried'
    BY <1>2 DEF Carried
  <1>. QED BY <1>3, <1>4 DEF GenuineInv

LEMMA GenuineProvide ==
    ASSUME GenuineInv, NEW n \in Nodes, NEW v \in Values, Provide(n, v), TypeOK'
    PROVE  GenuineInv'
  <1>. DEFINE d == [kind |-> "truths", known |-> {<<n, v>>}, aged |-> FALSE]
  <1>1. d \in Data /\ d.known = {<<n, v>>}
    BY DEF Data, Truths
  <1>2. /\ store' = Learn(n, {<<n, v>>}) /\ chan' = Sent(chan, n, Neighbours(n), d)
        /\ used' = [used EXCEPT ![n] = Append(@, v)] /\ TypeOK
    BY DEF Provide, GenuineInv
  <1>. HIDE DEF d
  <1>3. \A k \in Links : \A e \in Items(chan'[k]) : e \in Items(chan[k]) \/ e = d
    BY <1>1, <1>2, SentToAll
  <1>4. Genuine(used', <<n, v>>)
    <2>1. used[n] \in Seq(Values) /\ used'[n] = Append(used[n], v)
      BY <1>2 DEF TypeOK
    <2>2. Len(used[n]) + 1 \in DOMAIN used'[n] /\ used'[n][Len(used[n]) + 1] = v
      BY <2>1
    <2>. QED BY <2>2 DEF Genuine
  <1>5. ASSUME NEW k \in Nodes \X Values, Genuine(used, k) PROVE Genuine(used', k)
    <2>1. k[1] \in Nodes /\ used[k[1]] \in Seq(Values)
      BY <1>2 DEF TypeOK
    <2>2. PICK i \in DOMAIN used[k[1]] : used[k[1]][i] = k[2]
      BY <1>5 DEF Genuine
    <2>3. used'[k[1]] = used[k[1]] \/ used'[k[1]] = Append(used[k[1]], v)
      BY <1>2, <2>1 DEF TypeOK
    <2>4. i \in DOMAIN used'[k[1]] /\ used'[k[1]][i] = k[2]
      BY <2>1, <2>2, <2>3
    <2>. QED BY <2>4 DEF Genuine
  <1>6. ASSUME NEW x \in Nodes, NEW s \in Nodes, store'[x][s] # store[x][s]
        PROVE  Genuine(used', <<s, store'[x][s]>>)
    <2>1. {<<n, v>>} \in SUBSET (Nodes \X Values)
      OBVIOUS
    <2>2. <<s, store'[x][s]>> \in {<<n, v>>}
      BY <1>2, <1>6, <2>1, LearnedValues
    <2>. QED BY <1>4, <2>2
  <1>. QED BY <1>1, <1>3, <1>4, <1>5, <1>6, GenuineKept

\* What is received was genuine, and is sent on as it came.
LEMMA GenuineReceive ==
    ASSUME GenuineInv, NEW l \in Links, Receive(l[1], l[2]), TypeOK'
    PROVE  GenuineInv'
  <1>. DEFINE d == Head(chan[l])
  <1>1. TypeOK /\ l[1] \in Nodes /\ l[2] \in Nodes /\ chan[l] # <<>> /\ used' = used
    BY LinksTyped DEF GenuineInv, Receive, Drop, Take, ReceiveTruths, ReceiveResolve, ReceiveGimme
  <1>2. d \in Data /\ d \in Items(chan[l])
    BY <1>1, HeadTyped
  <1>3. \A k : Genuine(used, k) <=> Genuine(used', k)
    BY <1>1
  <1>4. CASE Drop(l[1], l[2])
    <2>1. chan' = Rest(l[1], l[2]) /\ store' = store
      BY <1>4 DEF Drop
    <2>2. \A k \in Links : Items(chan'[k]) \subseteq Items(chan[k])
      BY <1>1, <2>1, RestItems
    <2>. QED BY <1>3, <2>1, <2>2, GenuineKept
  <1>5. CASE ReceiveTruths(l[1], l[2], d)
    <2>1. /\ Broadcast(l[1], l[2], d) /\ store' = Learn(l[2], d.known)
          /\ d.kind = "truths" /\ d.known \in SUBSET (Nodes \X Values)
      BY <1>2, <1>5, DataKinds DEF ReceiveTruths, Truths
    <2>2. \A k \in Links : Items(chan'[k]) \subseteq Items(chan[k]) \cup {d}
      BY <1>1, <2>1, BroadcastItems
    <2>3. \A k \in d.known : Genuine(used, k)
      BY <1>2, <2>1 DEF GenuineInv, Carried
    <2>4. ASSUME NEW n \in Nodes, NEW s \in Nodes, store'[n][s] # store[n][s]
          PROVE  Genuine(used', <<s, store'[n][s]>>)
      <3>1. <<s, store'[n][s]>> \in d.known
        BY <1>1, <2>1, <2>4, LearnedValues
      <3>. QED BY <1>3, <2>3, <3>1
    <2>. HIDE DEF d
    <2>. QED BY <1>3, <2>2, <2>3, <2>4, GenuineKept
  <1>6. CASE ReceiveResolve(l[1], l[2], d)
    <2>1. Broadcast(l[1], l[2], d) /\ store' = store /\ d.kind # "truths"
      BY <1>6 DEF ReceiveResolve
    <2>2. \A k \in Links : Items(chan'[k]) \subseteq Items(chan[k]) \cup {d}
      BY <1>1, <2>1, BroadcastItems
    <2>. HIDE DEF d
    <2>. QED BY <1>3, <2>1, <2>2, GenuineKept
  <1>7. CASE ReceiveGimme(l[1], l[2], d)
    <2>1. PICK aged \in BOOLEAN :
             chan' = IF Known(l[2]) = {} THEN Rest(l[1], l[2])
                     ELSE Sent(Rest(l[1], l[2]), l[2], {l[1]},
                               [kind |-> "truths", known |-> Known(l[2]), aged |-> aged])
      BY <1>7 DEF ReceiveGimme
    <2>. DEFINE table == [kind |-> "truths", known |-> Known(l[2]), aged |-> aged]
    <2>2. table \in Data /\ table.known = Known(l[2])
      BY <1>1, KnownTyped DEF Data, Truths
    <2>3. \A k \in Known(l[2]) : Genuine(used, k)
      BY <1>1 DEF Known, GenuineInv, Stored, Has
    <2>4. \A k \in Links : Items(chan'[k]) \subseteq Items(chan[k]) \cup {table}
      <3>. HIDE DEF table
      <3>1. CASE chan' = Rest(l[1], l[2])
        BY <1>1, <3>1, RestItems
      <3>2. CASE chan' = Sent(Rest(l[1], l[2]), l[2], {l[1]}, table)
        <4>1. {l[1]} \in SUBSET Nodes
          BY <1>1
        <4>. QED BY <1>1, <2>2, <3>2, <4>1, ReceivedItems DEF Received
      <3>. QED BY <2>1, <3>1, <3>2 DEF table
    <2>5. store' = store
      BY <1>7 DEF ReceiveGimme
    <2>. HIDE DEF table
    <2>. QED BY <1>3, <2>2, <2>3, <2>4, <2>5, GenuineKept
  <1>. QED BY <1>4, <1>5, <1>6, <1>7, LinksTyped DEF Receive

LEMMA GenuineStep == GenuineInv /\ [Next]_vars => GenuineInv'
  <1>. SUFFICES ASSUME GenuineInv, [Next]_vars PROVE GenuineInv'
    OBVIOUS
  <1>0. TypeOK /\ TypeOK'
    BY TypedStep DEF GenuineInv
  <1>1. ASSUME NEW r \in Nodes, NEW s \in Nodes, Ask(r, s) PROVE GenuineInv'
    <2>. DEFINE query == [kind |-> "resolve", at |-> s]
    <2>1. query \in Data /\ query.kind # "truths"
      BY DEF Data, Resolve
    <2>2. chan' = Sent(chan, r, Neighbours(r), query) /\ UNCHANGED <<store, used>>
      BY <1>1 DEF Ask
    <2>. HIDE DEF query
    <2>3. \A k \in Links : \A d \in Items(chan'[k]) : d \in Items(chan[k]) \/ d = query
      BY <1>0, <2>1, <2>2, SentToAll
    <2>4. \A k : Genuine(used, k) => Genuine(used', k)
      BY <2>2 DEF Genuine
    <2>. QED BY <1>0, <2>1, <2>2, <2>3, <2>4, GenuineKept
  <1>2. ASSUME NEW l \in Links, Reconnect(l[1], l[2]) PROVE GenuineInv'
    <2>1. /\ UNCHANGED <<store, used>>
          /\ \A k \in Links : chan'[k] \in {chan[k], <<Gimme>>, <<>>}
      BY <1>0, <1>2 DEF Reconnect, TypeOK
    <2>2. \A k \in Links : \A d \in Items(chan'[k]) : d \in Items(chan[k]) \/ d.kind # "truths"
      BY <2>1, ItemsShort, DataKinds
    <2>3. \A k : Genuine(used, k) => Genuine(used', k)
      BY <2>1 DEF Genuine
    <2>. QED BY <1>0, <2>1, <2>2, <2>3, GenuineKept
  <1>3. ASSUME UNCHANGED <<store, chan, used>> PROVE GenuineInv'
    <2>1. \A k : Genuine(used, k) => Genuine(used', k)
      BY <1>3 DEF Genuine
    <2>. QED BY <1>0, <1>3, <2>1, GenuineKept
  <1>. QED
    BY <1>0, <1>1, <1>2, <1>3, GenuineProvide, GenuineReceive DEF Next, Prune, vars

LEMMA GenuineInit == Init => GenuineInv
  <1>. SUFFICES ASSUME Init PROVE GenuineInv
    OBVIOUS
  <1>1. TypeOK
    BY GossipAssumption DEF Init, TypeOK
  <1>2. (\A l \in Links : Items(chan[l]) = {}) /\ (\A n, s \in Nodes : ~Has(n, s))
    BY ItemsShort DEF Init, Has
  <1>. QED BY <1>1, <1>2 DEF GenuineInv, Stored, Carried

\* The copies of Replicas, in the words of these proofs.
Copy == [n \in Nodes |-> [s \in Nodes \ {n} |-> store[n][s]]]

\* Until a channel breaks, what a signpost learns of another is the value that
\* follows the one it had.
LEMMA LearnedNext ==
    ASSUME TypeOK, Ordered, NEW l \in Links, chan[l] # <<>>,
           ReceiveTruths(l[1], l[2], Head(chan[l])),
           NEW s \in Nodes \ {l[2]}, store'[l[2]][s] # store[l[2]][s]
    PROVE  Copies!Follows(s, store[l[2]][s], store'[l[2]][s])
  <1>. DEFINE n == l[2]
              d == Head(chan[l])
  <1>1. /\ FromSources /\ InOrder /\ CacheRight /\ n \in Nodes
        /\ d \in Items(chan[l]) /\ d.kind = "truths" /\ d \notin seen[n]
    BY HeadTyped, LinksTyped DEF Ordered, ReceiveTruths, Seen
  <1>2. PICK t \in Nodes : \E j \in DOMAIN used[t] : d = Datum(t, j)
    <2>1. d \notin Resolve
      BY <1>1, DataKinds
    <2>. QED BY <1>1, <2>1 DEF FromSources, FromSource
  <1>3. PICK i \in DOMAIN used[t] : d = Datum(t, i)
    BY <1>2
  <1>. HIDE DEF d
  <1>4. /\ store'[n][t] = used[t][i]
        /\ \A x, u \in Nodes : ~(x = n /\ u = t) => store'[x][u] = store[x][u]
    BY <1>1, <1>3, RankAfter DEF d
  <1>5. t = s
    BY <1>1, <1>4
  <1>6. /\ ~AtLeast(n, s, i)
        /\ \A j \in DOMAIN used[s] : j < i => AtLeast(n, s, j)
    BY <1>1, <1>3, <1>5, NextInLine DEF d
  <1>7. used[s] \in Seq(Values) /\ i \in 1 .. Len(used[s]) /\ DOMAIN used[s] = 1 .. Len(used[s])
    BY <1>3, <1>5 DEF TypeOK
  <1>8. store[n][s] = IF i = 1 THEN Nothing ELSE used[s][i - 1]
    <2>1. CASE i = 1
      <3>1. \A j \in DOMAIN used[s] : store[n][s] # used[s][j]
        BY <1>6, <1>7, <2>1 DEF AtLeast
      <3>. QED BY <1>1, <2>1, <3>1 DEF FromSources
    <2>2. CASE i # 1
      <3>1. i - 1 \in DOMAIN used[s] /\ i - 1 < i
        BY <1>7, <2>2
      <3>2. PICK j \in DOMAIN used[s] : j >= i - 1 /\ store[n][s] = used[s][j]
        BY <1>6, <3>1 DEF AtLeast
      <3>3. ~(j >= i)
        BY <1>6, <3>2 DEF AtLeast
      <3>4. j = i - 1
        BY <1>7, <3>2, <3>3
      <3>. QED BY <2>2, <3>2, <3>4
    <2>. QED BY <2>1, <2>2
  <1>. QED BY <1>3, <1>4, <1>5, <1>8 DEF Copies!Follows

\* A step in which only n learns is one in which n hears.
LEMMA HearsWhatWasWritten ==
    ASSUME TypeOK, TypeOK', NEW n \in Nodes, UNCHANGED <<used, reconnects>>,
           \A m \in Nodes \ {n} : store'[m] = store[m],
           \A s \in Nodes \ {n} : store'[n][s] # store[n][s] =>
               /\ Genuine(used, <<s, store'[n][s]>>)
               /\ Fresh /\ reconnects = 0 => Copies!Follows(s, store[n][s], store'[n][s])
    PROVE  Copies!Hear(n)
  <1>. DEFINE heard == [s \in Nodes \ {n} |-> store'[n][s]]
  <1>1. /\ store \in [Nodes -> [Nodes -> Values \cup {Nothing}]]
        /\ store' \in [Nodes -> [Nodes -> Values \cup {Nothing}]]
        /\ reconnects \in Nat
    BY GossipAssumption DEF TypeOK
  <1>2. heard \in [Nodes \ {n} -> Values \cup {Nothing}]
    BY <1>1
  <1>3. Copy' = [Copy EXCEPT ![n] = heard]
    BY <1>1 DEF Copy
  <1>4. ASSUME NEW s \in Nodes \ {n}
        PROVE  Copy'[n][s] = store'[n][s] /\ Copy[n][s] = store[n][s]
    BY DEF Copy
  <1>5. \A s \in Nodes \ {n} : Copy'[n][s] # Copy[n][s] =>
            /\ Copies!WasWritten(s, Copy'[n][s])
            /\ Fresh /\ ~(reconnects > 0) => Copies!Follows(s, Copy[n][s], Copy'[n][s])
    BY <1>1, <1>4 DEF Genuine, Copies!WasWritten
  <1>. HIDE DEF heard
  <1>. QED BY <1>2, <1>3, <1>5 DEF Copies!Hear, Copy

LEMMA CopiesStep ==
    GenuineInv /\ (Fresh => OrderInv) /\ [Next]_vars => [Copies!Next]_Copies!replicavars
  <1>. SUFFICES ASSUME GenuineInv, Fresh => OrderInv, [Next]_vars
                PROVE  [Copies!Next]_Copies!replicavars
    OBVIOUS
  <1>0. TypeOK /\ TypeOK' /\ reconnects \in Nat
    BY TypedStep, GossipAssumption DEF GenuineInv, TypeOK
  <1>1. ASSUME UNCHANGED <<used, store, reconnects>> PROVE UNCHANGED Copies!replicavars
    BY <1>1 DEF Copies!replicavars
  <1>2. ASSUME NEW n \in Nodes, NEW v \in Values, Provide(n, v) PROVE Copies!Next
    <2>1. /\ used' = [used EXCEPT ![n] = Append(@, v)] /\ reconnects' = reconnects
          /\ Fresh => \A i \in DOMAIN used[n] : used[n][i] # v
          /\ store' = Learn(n, {<<n, v>>})
      BY <1>2 DEF Provide
    <2>2. \A x, s \in Nodes : x # s => store'[x][s] = store[x][s]
      <3>1. \A x, s \in Nodes : ~(x = n /\ s = n) => store'[x][s] = store[x][s]
        BY <1>0, <2>1, LearnOne
      <3>. QED BY <3>1
    <2>3. Copy' = Copy
      BY <2>2 DEF Copy
    <2>. QED BY <2>1, <2>3 DEF Copies!Next, Copies!Write, Copy
  <1>3. ASSUME NEW l \in Links, Receive(l[1], l[2])
        PROVE  Copies!Next \/ UNCHANGED <<used, store, reconnects>>
    <2>. DEFINE d == Head(chan[l])
    <2>1. UNCHANGED <<used, store, reconnects>> \/ ReceiveTruths(l[1], l[2], d)
      BY <1>3, LinksTyped DEF Receive, Drop, ReceiveResolve, ReceiveGimme
    <2>2. ASSUME ReceiveTruths(l[1], l[2], d) PROVE Copies!Hear(l[2])
      <3>1. /\ chan[l] # <<>> /\ d.kind = "truths" /\ store' = Learn(l[2], d.known)
            /\ UNCHANGED <<used, reconnects>> /\ l[2] \in Nodes
        BY <2>2, LinksTyped DEF ReceiveTruths, Take
      <3>2. d \in Items(chan[l]) /\ d.known \in SUBSET (Nodes \X Values)
        BY <1>0, <3>1, HeadTyped, DataKinds DEF Truths
      <3>3. \A k \in d.known : Genuine(used, k)
        BY <3>1, <3>2 DEF GenuineInv, Carried
      <3>4. \A m \in Nodes \ {l[2]} : store'[m] = store[m]
        BY <1>0, <3>1, <3>2, Learned
      <3>5. ASSUME NEW s \in Nodes \ {l[2]}, store'[l[2]][s] # store[l[2]][s]
            PROVE  /\ Genuine(used, <<s, store'[l[2]][s]>>)
                   /\ Fresh /\ reconnects = 0 =>
                          Copies!Follows(s, store[l[2]][s], store'[l[2]][s])
        <4>1. <<s, store'[l[2]][s]>> \in d.known
          BY <1>0, <3>1, <3>2, <3>5, LearnedValues
        <4>2. Fresh /\ reconnects = 0 => Ordered
          BY DEF OrderInv
        <4>. QED BY <1>0, <2>2, <3>1, <3>3, <3>5, <4>1, <4>2, LearnedNext
      <3>. HIDE DEF d
      <3>. QED BY <1>0, <3>1, <3>4, <3>5, HearsWhatWasWritten
    <2>. QED BY <2>1, <2>2, LinksTyped DEF Copies!Next
  <1>4. ASSUME NEW l \in Links, Reconnect(l[1], l[2]) PROVE Copies!Next
    <2>1. (reconnects > 0)' = TRUE /\ UNCHANGED <<used, store>>
      BY <1>0, <1>4 DEF Reconnect
    <2>2. Copy' = Copy
      BY <2>1 DEF Copy
    <2>. QED BY <2>1, <2>2 DEF Copies!Next, Copies!Break, Copy
  <1>5. ASSUME NEW r \in Nodes, NEW s \in Nodes, Ask(r, s)
        PROVE  UNCHANGED <<used, store, reconnects>>
    BY <1>5 DEF Ask
  <1>6. ASSUME NEW n \in Nodes, NEW d \in seen[n], Prune(n, d)
        PROVE  UNCHANGED <<used, store, reconnects>>
    BY <1>6 DEF Prune
  <1>. QED BY <1>1, <1>2, <1>3, <1>4, <1>5, <1>6 DEF Next, vars

LEMMA CopiesInit == Init => Copies!Init
  <1>. SUFFICES ASSUME Init PROVE Copies!Init
    OBVIOUS
  <1>1. used = [s \in Nodes |-> <<>>] /\ (reconnects > 0) = FALSE
    BY DEF Init
  <1>2. Copy = [n \in Nodes |-> [s \in Nodes \ {n} |-> Nothing]]
    BY DEF Copy, Init
  <1>. QED BY <1>1, <1>2 DEF Copies!Init, Copy

\* What signposts learn from each other was provided, whatever breaks, and as long
\* as no channel did each comes to the values of each other one by one, in the order
\* in which they were provided, on whatever ways they reach it, where none is
\* provided twice: gossip, with its cache of what was broadcast, implements Replicas.
THEOREM TruthsAreCopies == Spec => CopiesAdvance
  <1>1. CASE Fresh
    <2>1. OrderInv /\ [Next]_vars => OrderInv'
      BY <1>1, OrderStep
    <2>2. GenuineInv /\ OrderInv /\ [Next]_vars => [Copies!Next]_Copies!replicavars
      BY CopiesStep
    <2>. QED BY <2>1, <2>2, OrderInit, GenuineInit, GenuineStep, CopiesInit, PTL
             DEF Spec, CopiesAdvance, Copies!Spec
  <1>2. CASE ~Fresh
    <2>1. GenuineInv /\ [Next]_vars => [Copies!Next]_Copies!replicavars
      BY <1>2, CopiesStep
    <2>. QED BY <2>1, GenuineInit, GenuineStep, CopiesInit, PTL
             DEF Spec, CopiesAdvance, Copies!Spec
  <1>. QED BY <1>1, <1>2
=============================================================================
