---------------------------- MODULE SolverProofs ----------------------------
(***************************************************************************)
(* Proofs about Solver, for every set of clients, users, signposts and     *)
(* truths, and every bound on the channels and the clock.                  *)
(***************************************************************************)
EXTENDS Solver, FiniteSetTheorems, TLAPS

-----------------------------------------------------------------------------
(* Type correctness.                                                       *)

\* A timestep leaves well-typed tables: the answers are deliveries, what it
\* stores are truths, and what it generates are tasks.
LEMMA TimestepType ==
    ASSUME TypeOK,
           NEW N \in SUBSET need, NEW O \in SUBSET observe, NEW P \in SUBSET provide,
           NEW X \in SUBSET external, NEW L \in SUBSET leave, NEW gc \in BOOLEAN
    PROVE  /\ CacheAnswers(N) \subseteq Delivery
           /\ ByName(P \cup X) \subseteq Delivery
           /\ ByResource(P \cup X) \subseteq Delivery
           /\ TruthsAfter(P \cup X, gc) \subseteq Truth
           /\ SubscribersAfter(N \cup O, L) \subseteq Subscription
           /\ Generated(N) \subseteq Task
<1>1. /\ N \subseteq Subscription /\ O \subseteq Subscription
      /\ P \cup X \subseteq Offer
      /\ truths \subseteq Truth /\ subscribers \subseteq Subscription /\ now \in Nat
  BY DEF TypeOK
<1>2. CacheAnswers(N) \subseteq Delivery
  <2> SUFFICES ASSUME NEW p \in N \X truths
               PROVE  DeliveryTo(p[1].who, p[2]) \in Delivery
    BY DEF CacheAnswers, Satisfiable
  <2>1. p[1] \in Subscription /\ p[2] \in Truth
    BY <1>1
  <2> QED BY <2>1 DEF DeliveryTo, Delivery, Subscription, Truth
<1>3. ByName(P \cup X) \subseteq Delivery /\ ByResource(P \cup X) \subseteq Delivery
  <2> SUFFICES ASSUME NEW p \in (P \cup X) \X subscribers
               PROVE  DeliveryTo(p[2].who, p[1]) \in Delivery
    BY DEF ByName, ByResource
  <2>1. p[1] \in Offer /\ p[2] \in Subscription
    BY <1>1
  <2> QED BY <2>1 DEF DeliveryTo, Delivery, Subscription, Offer
<1>4. TruthsAfter(P \cup X, gc) \subseteq Truth
  <2>1. ASSUME NEW o \in P \cup X
        PROVE  [what |-> o.what, provider |-> o.provider, user |-> o.user,
                sp |-> o.sp, val |-> o.val, exp |-> now + o.ttl] \in Truth
    BY <1>1 DEF Offer, Truth
  <2>2. Storable(P \cup X) \subseteq Truth
    BY <2>1 DEF Storable
  <2> QED BY <2>2, <1>1 DEF TruthsAfter
<1>5. SubscribersAfter(N \cup O, L) \subseteq Subscription
  BY <1>1 DEF SubscribersAfter
<1>6. Generated(N) \subseteq Task
  <2> SUFFICES ASSUME NEW n \in N PROVE TaskFor(n) \in Task
    BY DEF Generated
  <2>1. n \in Subscription
    BY <1>1
  <2> QED BY <2>1, SolverAssumption DEF TaskFor, Task, Subscription
<1> QED BY <1>2, <1>3, <1>4, <1>5, <1>6

\* Solver's state stays well-typed.
THEOREM TypeCorrect == Spec => []TypeOK
<1>1. Init => TypeOK
  <2>1. InitialTruths \subseteq Truth
    BY SolverAssumption
  <2>2. SUFFICES ASSUME Init PROVE TypeOK
    OBVIOUS
  <2>3. now \in Nat /\ aborted \in BOOLEAN /\ collected \in Nat
        /\ read \in [Offers -> Nat \cup {Never}]
    BY <2>2 DEF Init
  <2> QED BY <2>1, <2>2, <2>3, Zenon DEF Init, TypeOK
<1>2. TypeOK /\ [Next]_vars => TypeOK'
  <2> SUFFICES ASSUME TypeOK, [Next]_vars PROVE TypeOK'
    OBVIOUS
  <2>1. ASSUME NEW N \in SUBSET need, NEW O \in SUBSET observe, NEW P \in SUBSET provide,
               NEW X \in SUBSET external, NEW L \in SUBSET leave, NEW gc \in BOOLEAN,
               Timestep(N, O, P, X, L, gc)
        PROVE  TypeOK'
    <3>1. /\ out' \subseteq Delivery /\ truths' \subseteq Truth
          /\ subscribers' \subseteq Subscription
      BY <2>1, TimestepType DEF Timestep
    <3>2. tasks' \subseteq Task
      BY <2>1, TimestepType DEF Timestep, TypeOK
    <3>3. open' \subseteq open \cup N
      BY <2>1 DEF Timestep
    <3>4. read' \in [Offers -> Nat \cup {Never}] /\ collected' \in Nat
      BY <2>1 DEF Timestep, TypeOK
    <3> QED BY <2>1, <3>1, <3>2, <3>3, <3>4 DEF Timestep, Consume, TypeOK
  <2>2. ASSUME NEW N \in SUBSET need, NEW O \in SUBSET observe, NEW P \in SUBSET provide,
               NEW X \in SUBSET external, NEW L \in SUBSET leave,
               AbortedTimestep(N, O, P, X, L)
        PROVE  TypeOK'
    <3>1. SubscribersAfter(N \cup O, L) \subseteq Subscription
      BY TimestepType
    <3> QED BY <2>2, <3>1 DEF AbortedTimestep, Consume, TypeOK
  <2>3. ASSUME NEW r \in Requests, Request(r) PROVE TypeOK'
    <3>1. r.sub \in Subscription
      BY SolverAssumption
    <3> QED BY <2>3, <3>1 DEF Request, TypeOK, tables, effects, history
  <2>4. ASSUME NEW c \in Clients, Stop(c) PROVE TypeOK'
    BY <2>4 DEF Stop, TypeOK, tables, effects, history
  <2>5. ASSUME NEW o \in Offers, Volunteer(o) \/ Hear(o) PROVE TypeOK'
    BY <2>5, SolverAssumption DEF Volunteer, Hear, TypeOK, tables, effects, history
  <2>6. ASSUME NEW t \in tasks, NEW o \in Offers, Resolve(t, o) PROVE TypeOK'
    BY <2>6, SolverAssumption DEF Resolve, TypeOK, tables, history
  <2>7. CASE Clock
    BY <2>7 DEF Clock, TypeOK, tables, channels, effects, history
  <2>8. CASE UNCHANGED vars
    BY <2>8 DEF vars, TypeOK, tables, channels, effects, history
  <2> QED BY <2>1, <2>2, <2>3, <2>4, <2>5, <2>6, <2>7, <2>8 DEF Next
<1> QED BY <1>1, <1>2, PTL DEF Spec

-----------------------------------------------------------------------------
(* User isolation.                                                         *)

Asked == {r.sub : r \in Requests}

\* Clients only ever subscribe with the user they were created for.
OnlyAsked == need \cup observe \cup subscribers \subseteq Asked

LEMMA AskedUser == ASSUME NEW s \in Asked
                   PROVE  s \in Subscription /\ s.user = UserOf[s.who]
BY SolverAssumption DEF Asked

\* Whatever a timestep flushes respects user_info.
LEMMA FlushedRespects ==
    ASSUME TypeOK, OnlyAsked,
           NEW N \in SUBSET need, NEW P \in SUBSET (provide \cup external),
           NEW m \in CacheAnswers(N) \cup ByName(P) \cup ByResource(P)
    PROVE  \/ m.user \in {GLOBAL, UserOf[m.who]}
           \/ \E r \in Requests : r.sub.who = m.who /\ r.sub.what = AnyForm(m.what)
<1>1. CASE m \in CacheAnswers(N)
  <2>1. PICK p \in N \X truths : Satisfies(p[2], p[1]) /\ m = DeliveryTo(p[1].who, p[2])
    BY <1>1 DEF CacheAnswers, Satisfiable
  <2>2. p[1] \in Asked
    BY DEF OnlyAsked
  <2>3. m.user = p[2].user /\ m.who = p[1].who
    BY <2>1 DEF DeliveryTo
  <2> QED BY <2>1, <2>2, <2>3, AskedUser DEF Satisfies
<1>2. CASE m \in ByName(P)
  <2>1. PICK p \in P \X subscribers :
            p[1].user \in {GLOBAL, p[2].user} /\ m = DeliveryTo(p[2].who, p[1])
    BY <1>2 DEF ByName
  <2>2. p[2] \in Asked
    BY DEF OnlyAsked
  <2>3. m.user = p[1].user /\ m.who = p[2].who
    BY <2>1 DEF DeliveryTo
  <2> QED BY <2>1, <2>2, <2>3, AskedUser
<1>3. CASE m \in ByResource(P)
  <2>1. PICK p \in P \X subscribers :
            p[2].what = AnyForm(p[1].what) /\ m = DeliveryTo(p[2].who, p[1])
    BY <1>3 DEF ByResource
  <2>2. p[2] \in Asked
    BY DEF OnlyAsked
  <2>3. m.what = p[1].what /\ m.who = p[2].who
    BY <2>1 DEF DeliveryTo
  <2> QED BY <2>1, <2>2, <2>3 DEF Asked
<1> QED BY <1>1, <1>2, <1>3

\* A truth made for one user reaches only clients that work for that user or
\* that asked for its resource in every domain.
THEOREM UserIsolation == Spec => []UserInfoRespected
<1>1. Init => OnlyAsked /\ UserInfoRespected
  BY DEF Init, OnlyAsked, UserInfoRespected
<1>2. TypeOK /\ OnlyAsked /\ UserInfoRespected /\ [Next]_vars
        => OnlyAsked' /\ UserInfoRespected'
  <2> SUFFICES ASSUME TypeOK, OnlyAsked, UserInfoRespected, [Next]_vars
               PROVE  OnlyAsked' /\ UserInfoRespected'
    OBVIOUS
  <2>1. ASSUME NEW N \in SUBSET need, NEW O \in SUBSET observe, NEW P \in SUBSET provide,
               NEW X \in SUBSET external, NEW L \in SUBSET leave, NEW gc \in BOOLEAN,
               Timestep(N, O, P, X, L, gc)
        PROVE  OnlyAsked' /\ UserInfoRespected'
    <3>1. OnlyAsked'
      BY <2>1 DEF Timestep, Consume, SubscribersAfter, OnlyAsked
    <3>2. out' = CacheAnswers(N) \cup ByName(P \cup X) \cup ByResource(P \cup X)
      BY <2>1 DEF Timestep
    <3>3. P \cup X \in SUBSET (provide \cup external)
      OBVIOUS
    <3> QED BY <3>1, <3>2, <3>3, FlushedRespects DEF UserInfoRespected
  <2>2. ASSUME NEW N \in SUBSET need, NEW O \in SUBSET observe, NEW P \in SUBSET provide,
               NEW X \in SUBSET external, NEW L \in SUBSET leave,
               AbortedTimestep(N, O, P, X, L)
        PROVE  OnlyAsked' /\ UserInfoRespected'
    BY <2>2 DEF AbortedTimestep, Consume, SubscribersAfter, OnlyAsked, UserInfoRespected
  <2>3. ASSUME NEW r \in Requests, Request(r) PROVE OnlyAsked' /\ UserInfoRespected'
    BY <2>3 DEF Request, Asked, OnlyAsked, UserInfoRespected, tables, effects
  <2>4. ASSUME NEW c \in Clients, Stop(c) PROVE OnlyAsked' /\ UserInfoRespected'
    BY <2>4 DEF Stop, OnlyAsked, UserInfoRespected, tables, effects
  <2>5. ASSUME NEW o \in Offers, Volunteer(o) \/ Hear(o)
        PROVE  OnlyAsked' /\ UserInfoRespected'
    BY <2>5 DEF Volunteer, Hear, OnlyAsked, UserInfoRespected, tables, effects
  <2>6. ASSUME NEW t \in tasks, NEW o \in Offers, Resolve(t, o)
        PROVE  OnlyAsked' /\ UserInfoRespected'
    BY <2>6 DEF Resolve, OnlyAsked, UserInfoRespected, tables
  <2>7. CASE Clock
    BY <2>7 DEF Clock, OnlyAsked, UserInfoRespected, tables, channels, effects
  <2>8. CASE UNCHANGED vars
    BY <2>8 DEF vars, OnlyAsked, UserInfoRespected, tables, channels, effects
  <2> QED BY <2>1, <2>2, <2>3, <2>4, <2>5, <2>6, <2>7, <2>8 DEF Next
<1> QED BY <1>1, <1>2, TypeCorrect, PTL DEF Spec

-----------------------------------------------------------------------------
(* The cache.                                                              *)

OnlyOffered == provide \cup external \subseteq Offers

InThePast == collected <= now /\ \A o \in Offers : read[o] <= now

LEMMA StoredTruths ==
    ASSUME NEW Q, NEW t \in Storable(Q)
    PROVE  \E p \in Q : /\ p.ttl > 0 /\ SameTruthKey(t, p)
                        /\ t.val = p.val /\ t.exp = now + p.ttl
BY DEF Storable, SameTruthKey

\* A timestep leaves one truth to a key: it stores one truth for each offer it
\* read, and drops what had that offer's key.
LEMMA TimestepKeyed ==
    ASSUME TruthsKeyed, NEW Q, NEW gc \in BOOLEAN,
           ~OffersClash(Q), truths' = TruthsAfter(Q, gc)
    PROVE  TruthsKeyed'
<1>1. ASSUME NEW t \in Storable(Q), NEW u \in Storable(Q), SameTruthKey(t, u)
      PROVE  t = u
  <2>1. PICK p \in Q : t = [what |-> p.what, provider |-> p.provider, user |-> p.user,
                            sp |-> p.sp, val |-> p.val, exp |-> now + p.ttl]
    BY DEF Storable
  <2>2. PICK q \in Q : u = [what |-> q.what, provider |-> q.provider, user |-> q.user,
                            sp |-> q.sp, val |-> q.val, exp |-> now + q.ttl]
    BY DEF Storable
  <2>3. SameTruthKey(p, q)
    BY <1>1, <2>1, <2>2 DEF SameTruthKey
  <2>4. p.val = q.val /\ p.ttl = q.ttl
    BY <2>3 DEF OffersClash
  <2> QED BY <2>1, <2>2, <2>3, <2>4 DEF SameTruthKey
<1> SUFFICES ASSUME NEW t \in truths', NEW u \in truths', SameTruthKey(t, u)
             PROVE  t = u
  BY DEF TruthsKeyed, SameTruthKey
<1>2. SameTruthKey(u, t)
  BY DEF SameTruthKey
<1> QED BY <1>1, <1>2 DEF TruthsAfter, TruthsKeyed

\* A row that a timestep keeps was not read anew, so it is the newest of its key
\* as before, and if the timestep collected garbage the row was alive.
LEMMA KeptRow ==
    ASSUME TypeOK, InThePast,
           NEW Q \in SUBSET Offers, NEW gc \in BOOLEAN,
           read' = [o \in Offers |-> IF o \in Q THEN now ELSE read[o]],
           collected' = IF gc THEN now ELSE collected,
           NEW t \in truths, RowAsProvided(t), gc => Valid(t),
           \A u \in Storable(Q) : ~SameTruthKey(t, u)
    PROVE  RowAsProvided(t)'
<1>1. t.exp > collected'
  BY DEF RowAsProvided, Valid
<1>2. ASSUME NEW u \in Offers, u.ttl > 0, SameTruthKey(u, t)
      PROVE  read'[u] = read[u]
  <2>1. ASSUME u \in Q PROVE FALSE
    <3> DEFINE s == [what |-> u.what, provider |-> u.provider, user |-> u.user,
                     sp |-> u.sp, val |-> u.val, exp |-> now + u.ttl]
    <3>1. s \in Storable(Q)
      BY <1>2, <2>1 DEF Storable
    <3>2. SameTruthKey(t, s)
      BY <1>2 DEF SameTruthKey
    <3> QED BY <3>1, <3>2
  <2> QED BY <2>1
<1>3. CASE t \in InitialTruths /\ Untouched(t)
  BY <1>1, <1>2, <1>3 DEF RowAsProvided, Untouched, SameTruthKey
<1>4. ASSUME NEW o \in Offers,
             SameTruthKey(t, o), t.val = o.val, o.ttl > 0,
             read[o] # Never, t.exp = read[o] + o.ttl, Newest(o)
      PROVE  RowAsProvided(t)'
  <2>1. read'[o] = read[o]
    BY <1>2, <1>4 DEF SameTruthKey
  <2>2. ASSUME NEW u \in Offers, u.ttl > 0, SameTruthKey(u, o)
        PROVE  read'[u] <= read'[o]
    <3>1. SameTruthKey(u, t)
      BY <1>4, <2>2 DEF SameTruthKey
    <3> QED BY <1>2, <1>4, <2>1, <2>2, <3>1 DEF Newest
  <2>3. Newest(o)'
    BY <2>2 DEF Newest, SameTruthKey
  <2> QED BY <1>1, <1>4, <2>1, <2>3 DEF RowAsProvided, SameTruthKey
<1> QED BY <1>3, <1>4 DEF RowAsProvided

\* A row that a timestep stores was read now, with the whole of its lifetime to
\* come.
LEMMA StoredRow ==
    ASSUME TypeOK, InThePast,
           NEW Q \in SUBSET Offers, NEW gc \in BOOLEAN,
           read' = [o \in Offers |-> IF o \in Q THEN now ELSE read[o]],
           collected' = IF gc THEN now ELSE collected,
           NEW t \in Storable(Q)
    PROVE  RowAsProvided(t)'
<1>1. PICK p \in Q : /\ p.ttl > 0 /\ SameTruthKey(t, p)
                     /\ t.val = p.val /\ t.exp = now + p.ttl
  BY StoredTruths
<1>2. p \in Offers /\ p.ttl \in Int /\ now \in Nat /\ collected \in Nat
  BY SolverAssumption DEF Offer, TypeOK
<1>3. read'[p] = now /\ read'[p] # Never
  BY <1>2 DEF Never
<1>4. t.exp > collected'
  BY <1>1, <1>2 DEF InThePast
<1>5. Newest(p)'
  BY <1>3 DEF Newest, InThePast, TypeOK, Never, SameTruthKey
<1> QED BY <1>1, <1>2, <1>3, <1>4, <1>5 DEF RowAsProvided, SameTruthKey

\* Every answer of a timestep is made of a truth it read or of a row alive.
LEMMA FlushedAlive ==
    ASSUME TypeOK, \A t \in truths : RowAsProvided(t),
           NEW N \in SUBSET need, NEW Q \in SUBSET Offers, now' = now,
           read' = [o \in Offers |-> IF o \in Q THEN now ELSE read[o]],
           NEW m \in CacheAnswers(N) \cup ByName(Q) \cup ByResource(Q)
    PROVE  SentAlive(m)'
<1>0. now # Never
  BY DEF TypeOK, Never
<1>1. CASE m \in ByName(Q) \cup ByResource(Q)
  <2>1. PICK p \in Q, s \in subscribers : m = DeliveryTo(s.who, p)
    BY <1>1 DEF ByName, ByResource
  <2>2. m = DeliveryTo(m.who, p)
    BY <2>1 DEF DeliveryTo
  <2> QED BY <1>0, <2>2 DEF SentAlive, DeliveryTo
<1>2. CASE m \in CacheAnswers(N)
  <2>1. PICK n \in N, t \in truths : Valid(t) /\ m = DeliveryTo(n.who, t)
    BY <1>2 DEF CacheAnswers, Satisfiable, Satisfies
  <2>2. m = DeliveryTo(m.who, t)
    BY <2>1 DEF DeliveryTo
  <2>3. CASE t \in InitialTruths
    BY <2>1, <2>2, <2>3 DEF SentAlive, Valid, DeliveryTo
  <2>4. ASSUME NEW o \in Offers, SameTruthKey(t, o), t.val = o.val,
               read[o] # Never, t.exp = read[o] + o.ttl
        PROVE  SentAlive(m)'
    <3>1. m = DeliveryTo(m.who, o)
      BY <2>2, <2>4 DEF DeliveryTo, SameTruthKey
    <3>2. now < read[o] + o.ttl
      BY <2>1, <2>4, SolverAssumption DEF Valid, Offer, TypeOK, Never
    <3>3. read'[o] = now \/ read'[o] = read[o]
      OBVIOUS
    <3> QED BY <1>0, <2>4, <3>1, <3>2, <3>3 DEF SentAlive, DeliveryTo
  <2> QED BY <2>3, <2>4 DEF RowAsProvided
<1> QED BY <1>1, <1>2

\* The cache never holds two truths of one key; each is the newest that was read
\* of its key, with the lifetime its provider gave it from then on; it does not
\* outlive a collection after its end, nor answers anyone after it.
THEOREM CacheSound == Spec => [](TruthsKeyed /\ CacheWithinTTL)
<1> DEFINE Inv == OnlyOffered /\ InThePast /\ TruthsKeyed /\ CacheWithinTTL
<1>1. Init => Inv
  <2> SUFFICES ASSUME Init PROVE Inv
    OBVIOUS
  <2>1. OnlyOffered /\ InThePast
    BY DEF Init, OnlyOffered, InThePast, Never
  <2>2. \A t \in truths : RowAsProvided(t)
    BY SolverAssumption DEF Init, RowAsProvided, Untouched
  <2>3. CacheWithinTTL
    BY <2>2 DEF Init, CacheWithinTTL
  <2>4. \A t, u \in InitialTruths : t.what = u.what => t = u
    BY SolverAssumption
  <2>5. TruthsKeyed
    BY <2>4 DEF Init, TruthsKeyed, SameTruthKey
  <2> QED BY <2>1, <2>3, <2>5
<1>2. TypeOK /\ Inv /\ [Next]_vars => Inv'
  <2> SUFFICES ASSUME TypeOK, Inv, [Next]_vars PROVE Inv'
    OBVIOUS
  <2>1. ASSUME NEW N \in SUBSET need, NEW O \in SUBSET observe, NEW P \in SUBSET provide,
               NEW X \in SUBSET external, NEW L \in SUBSET leave, NEW gc \in BOOLEAN,
               Timestep(N, O, P, X, L, gc)
        PROVE  Inv'
    <3> DEFINE Q == P \cup X
    <3>1. /\ truths' = TruthsAfter(Q, gc) /\ ~OffersClash(Q) /\ now' = now
          /\ out' = CacheAnswers(N) \cup ByName(Q) \cup ByResource(Q)
          /\ read' = [o \in Offers |-> IF o \in Q THEN now ELSE read[o]]
          /\ collected' = IF gc THEN now ELSE collected
          /\ provide' \subseteq provide /\ external' \subseteq external
      BY <2>1 DEF Timestep, Consume
    <3>2. Q \in SUBSET Offers
      BY DEF OnlyOffered
    <3>3. OnlyOffered'
      BY <3>1 DEF OnlyOffered
    <3>4. InThePast'
      BY <3>1 DEF InThePast, TypeOK
    <3>5. TruthsKeyed'
      <4> HIDE DEF Q
      <4> QED BY <3>1, TimestepKeyed
    <3>6. ASSUME NEW t \in truths' PROVE RowAsProvided(t)'
      <4> HIDE DEF Q
      <4>1. CASE t \in Storable(Q)
        BY <3>1, <3>2, <4>1, StoredRow
      <4>2. CASE t \notin Storable(Q)
        <5>1. /\ t \in truths /\ (gc => Valid(t))
              /\ \A u \in Storable(Q) : ~SameTruthKey(t, u)
          BY <3>1, <3>6, <4>2 DEF TruthsAfter
        <5>2. RowAsProvided(t)
          BY <5>1 DEF CacheWithinTTL
        <5> QED BY <3>1, <3>2, <5>1, <5>2, KeptRow
      <4> QED BY <4>1, <4>2
    <3>7. ASSUME NEW m \in out' PROVE SentAlive(m)'
      <4> HIDE DEF Q
      <4>1. \A t \in truths : RowAsProvided(t)
        BY DEF CacheWithinTTL
      <4> QED BY <3>1, <3>2, <3>7, <4>1, FlushedAlive
    <3> QED BY <3>3, <3>4, <3>5, <3>6, <3>7 DEF CacheWithinTTL
  <2> DEFINE Same == UNCHANGED <<now, truths, read, collected>>
  <2>2. ASSUME Same, out' \subseteq out, OnlyOffered' PROVE Inv'
    BY <2>2 DEF InThePast, TruthsKeyed, SameTruthKey, CacheWithinTTL, RowAsProvided,
                Untouched, Newest, SentAlive, DeliveryTo, Valid
  <2>3. ASSUME NEW N \in SUBSET need, NEW O \in SUBSET observe, NEW P \in SUBSET provide,
               NEW X \in SUBSET external, NEW L \in SUBSET leave,
               AbortedTimestep(N, O, P, X, L)
        PROVE  Same /\ out' \subseteq out /\ OnlyOffered'
    BY <2>3 DEF AbortedTimestep, Consume, OnlyOffered
  <2>4. ASSUME NEW r \in Requests, Request(r)
        PROVE  Same /\ out' \subseteq out /\ OnlyOffered'
    BY <2>4 DEF Request, OnlyOffered, tables, effects, history
  <2>5. ASSUME NEW c \in Clients, Stop(c)
        PROVE  Same /\ out' \subseteq out /\ OnlyOffered'
    BY <2>5 DEF Stop, OnlyOffered, tables, effects, history
  <2>6. ASSUME NEW o \in Offers, Volunteer(o) \/ Hear(o)
        PROVE  Same /\ out' \subseteq out /\ OnlyOffered'
    BY <2>6 DEF Volunteer, Hear, OnlyOffered, tables, effects, history
  <2>7. ASSUME NEW t \in tasks, NEW o \in Offers, Resolve(t, o)
        PROVE  Same /\ out' \subseteq out /\ OnlyOffered'
    BY <2>7 DEF Resolve, OnlyOffered, tables, history
  <2>8. CASE Clock
    <3>1. /\ now' = now + 1 /\ out' = {} /\ UNCHANGED <<truths, read, collected>>
          /\ provide' = provide /\ external' = external
      BY <2>8 DEF Clock, tables, channels, history
    <3>2. InThePast'
      BY <3>1 DEF InThePast, TypeOK, Never
    <3> QED BY <3>1, <3>2 DEF OnlyOffered, TruthsKeyed, SameTruthKey, CacheWithinTTL,
                              RowAsProvided, Untouched, Newest
  <2>9. CASE UNCHANGED vars
    BY <2>2, <2>9 DEF vars, OnlyOffered, tables, channels, effects, history
  <2> QED BY <2>1, <2>2, <2>3, <2>4, <2>5, <2>6, <2>7, <2>8, <2>9 DEF Next
<1> QED BY <1>1, <1>2, TypeCorrect, PTL DEF Spec

-----------------------------------------------------------------------------
(* No lost wake-up.                                                        *)

\* Two subscriptions of one key are the same: a client has one user.
LEMMA AskedKeyed ==
    ASSUME NEW s \in Asked, NEW r \in Asked, SameSubscriptionKey(s, r) PROVE s = r
BY AskedUser DEF SameSubscriptionKey, Subscription

\* A need the cache is found to satisfy gets its own answer, although the
\* code looks at the needs of every client in the timestep.
LEMMA FoundIsAnswered ==
    ASSUME TypeOK, NEW N \in SUBSET need, NEW n \in N, FoundInCache(n, N)
    PROVE  Answers(n, CacheAnswers(N))
<1>1. PICK p \in Satisfiable(N) : /\ p[2].what = n.what
                                  /\ p[1].user \in {n.user, GLOBAL}
                                  /\ n.sp \in {ANY, p[2].sp}
  BY DEF FoundInCache
<1>2. p \in N \X truths /\ Satisfies(p[2], p[1])
  BY DEF Satisfiable
<1>3. p[1] \in Subscription
  BY <1>2 DEF TypeOK
<1>4. p[1].user # GLOBAL
  BY <1>3, SolverAssumption DEF Subscription
<1>5. Satisfies(p[2], n)
  BY <1>1, <1>2, <1>4 DEF Satisfies
<1>6. <<n, p[2]>> \in Satisfiable(N)
  BY <1>2, <1>5 DEF Satisfiable
<1>7. DeliveryTo(n.who, p[2]) \in CacheAnswers(N)
  BY <1>6 DEF CacheAnswers
<1> QED BY <1>1, <1>7 DEF Answers, DeliveryTo

\* A truth that is read reaches every subscriber that may see it.
LEMMA ReadIsDelivered ==
    ASSUME NEW P, NEW o \in P, NEW n \in subscribers,
           o.what = n.what, o.user \in {GLOBAL, n.user}
    PROVE  Answers(n, ByName(P))
<1>1. <<o, n>> \in {q \in P \X subscribers : /\ q[2].what = q[1].what
                                             /\ q[1].user \in {GLOBAL, q[2].user}}
  OBVIOUS
<1>2. DeliveryTo(n.who, o) \in ByName(P)
  BY <1>1 DEF ByName
<1> QED BY <1>2 DEF Answers, DeliveryTo

\* A timestep keeps every unanswered need subscribed and pending.
LEMMA TimestepPending ==
    ASSUME TypeOK, OnlyAsked, OpenNeedPending, ~aborted,
           NEW N \in SUBSET need, NEW O \in SUBSET observe, NEW P \in SUBSET provide,
           NEW X \in SUBSET external, NEW L \in SUBSET leave, NEW gc \in BOOLEAN,
           Timestep(N, O, P, X, L, gc),
           NEW n \in open'
    PROVE  /\ n \in subscribers'
           /\ \/ \E t \in tasks' : t.what = n.what /\ t.user = n.user
              \/ \E o \in (provide \cup external)' :
                     o.what = n.what /\ o.user \in {GLOBAL, n.user}
<1>1. /\ n \in open \cup N /\ n.who \notin L /\ ~Answers(n, out')
      /\ out' = CacheAnswers(N) \cup ByName(P \cup X) \cup ByResource(P \cup X)
      /\ tasks' = tasks \cup Generated(N)
      /\ subscribers' = SubscribersAfter(N \cup O, L)
      /\ provide' = provide \ P /\ external' = external \ X
  BY DEF Timestep, Consume
<1>2. n \in subscribers'
  <2>1. CASE n \in N
    BY <2>1, <1>1 DEF SubscribersAfter
  <2>2. CASE n \in open
    <3>1. n \in subscribers /\ n \in Asked /\ N \cup O \subseteq Asked
      BY <2>2 DEF OpenNeedPending, OnlyAsked
    <3>2. \A r \in N \cup O : SameSubscriptionKey(n, r) => r = n
      BY <3>1, AskedKeyed
    <3> QED BY <1>1, <3>1, <3>2 DEF SubscribersAfter
  <2> QED BY <1>1, <2>1, <2>2
<1>3. CASE n \in N
  <2>1. ~FoundInCache(n, N)
    BY <1>1, <1>3, FoundIsAnswered DEF Answers
  <2>2. TaskFor(n) \in tasks'
    BY <1>1, <1>3, <2>1 DEF Generated
  <2>3. TaskFor(n).what = n.what /\ TaskFor(n).user = n.user
    BY DEF TaskFor
  <2> QED BY <1>2, <2>2, <2>3
<1>4. CASE n \in open
  <2>1. n \in subscribers
    BY <1>4 DEF OpenNeedPending
  <2>2. CASE \E t \in tasks : t.what = n.what /\ t.user = n.user
    BY <2>2, <1>1, <1>2
  <2>3. ASSUME NEW o \in provide \cup external,
               o.what = n.what, o.user \in {GLOBAL, n.user}
        PROVE  o \in (provide \cup external)'
    <3>1. ASSUME o \in P \cup X PROVE FALSE
      <4>1. Answers(n, ByName(P \cup X))
        BY <2>1, <2>3, <3>1, ReadIsDelivered
      <4> QED BY <1>1, <4>1 DEF Answers
    <3> QED BY <1>1, <3>1
  <2> QED BY <1>2, <1>4, <2>2, <2>3 DEF OpenNeedPending
<1> QED BY <1>1, <1>3, <1>4

\* A need that was read and not answered stays subscribed and pending.
THEOREM NoLostWakeup == Spec => []OpenNeedPending
<1>1. Init => OnlyAsked /\ OpenNeedPending
  BY DEF Init, OnlyAsked, OpenNeedPending
<1>2. TypeOK /\ OnlyAsked /\ OpenNeedPending /\ [Next]_vars => OnlyAsked' /\ OpenNeedPending'
  <2> SUFFICES ASSUME TypeOK, OnlyAsked, OpenNeedPending, [Next]_vars
               PROVE  OnlyAsked' /\ OpenNeedPending'
    OBVIOUS
  <2>1. ASSUME NEW N \in SUBSET need, NEW O \in SUBSET observe, NEW P \in SUBSET provide,
               NEW X \in SUBSET external, NEW L \in SUBSET leave, NEW gc \in BOOLEAN,
               Timestep(N, O, P, X, L, gc)
        PROVE  OnlyAsked' /\ OpenNeedPending'
    <3>1. OnlyAsked'
      BY <2>1 DEF Timestep, Consume, SubscribersAfter, OnlyAsked
    <3>2. aborted' = aborted
      BY <2>1 DEF Timestep
    <3> QED BY <2>1, <3>1, <3>2, TimestepPending DEF OpenNeedPending
  <2>2. ASSUME NEW N \in SUBSET need, NEW O \in SUBSET observe, NEW P \in SUBSET provide,
               NEW X \in SUBSET external, NEW L \in SUBSET leave,
               AbortedTimestep(N, O, P, X, L)
        PROVE  OnlyAsked' /\ OpenNeedPending'
    BY <2>2 DEF AbortedTimestep, Consume, SubscribersAfter, OnlyAsked, OpenNeedPending
  <2>3. ASSUME NEW r \in Requests, Request(r) PROVE OnlyAsked' /\ OpenNeedPending'
    BY <2>3 DEF Request, Asked, OnlyAsked, OpenNeedPending, tables, effects, history
  <2>4. ASSUME NEW c \in Clients, Stop(c) PROVE OnlyAsked' /\ OpenNeedPending'
    BY <2>4 DEF Stop, OnlyAsked, OpenNeedPending, tables, effects, history
  <2>5. ASSUME NEW o \in Offers, Volunteer(o) \/ Hear(o)
        PROVE  OnlyAsked' /\ OpenNeedPending'
    BY <2>5 DEF Volunteer, Hear, OnlyAsked, OpenNeedPending, tables, effects, history
  <2>6. ASSUME NEW t \in tasks, NEW o \in Offers, Resolve(t, o)
        PROVE  OnlyAsked' /\ OpenNeedPending'
    <3>1. /\ o.what = t.what /\ o.user \in {GLOBAL, t.user} /\ tasks' = tasks \ {t}
          /\ (provide \cup external)' = provide \cup external \cup {o}
          /\ UNCHANGED <<need, observe, subscribers, open, aborted>>
      BY <2>6 DEF Resolve, tables, history
    <3> QED BY <3>1 DEF OnlyAsked, OpenNeedPending
  <2>7. CASE Clock
    BY <2>7 DEF Clock, OnlyAsked, OpenNeedPending, tables, channels, effects, history
  <2>8. CASE UNCHANGED vars
    BY <2>8 DEF vars, OnlyAsked, OpenNeedPending, tables, channels, effects, history
  <2> QED BY <2>1, <2>2, <2>3, <2>4, <2>5, <2>6, <2>7, <2>8 DEF Next
<1> QED BY <1>1, <1>2, TypeCorrect, PTL DEF Spec

-----------------------------------------------------------------------------
(* The table of truths is a store with lifetimes.                          *)

\* An entry stands for one truth: a truth's fields are its entry's.
LEMMA EntryDetermines ==
    ASSUME NEW t \in Truth, NEW u \in Truth, EntryOf(t) = EntryOf(u)
    PROVE  t = u
BY DEF EntryOf, Truth

\* Truths of one key have entries of one key, and the other way round.
LEMMA EntryKeys ==
    ASSUME NEW t, NEW u
    PROVE  EntryOf(t).key = EntryOf(u).key <=> SameTruthKey(t, u)
BY DEF EntryOf, SameTruthKey

\* A cache with one truth to a key is a store with one entry to a key.
LEMMA KeyedEntries == TruthsKeyed => Store!Keyed
<1> SUFFICES ASSUME TruthsKeyed, NEW e \in Entries, NEW f \in Entries, e.key = f.key
             PROVE  e = f
  BY DEF Store!Keyed
<1>1. PICK t \in truths : e = EntryOf(t)
  BY DEF Entries
<1>2. PICK u \in truths : f = EntryOf(u)
  BY DEF Entries
<1>3. SameTruthKey(t, u)
  BY <1>1, <1>2, EntryKeys
<1> QED BY <1>1, <1>2, <1>3 DEF TruthsKeyed

\* What a timestep drops from the cache has expired or is displaced by a truth
\* of its key, and what it adds is valid.
LEMMA TimestepChanges ==
    ASSUME TypeOK, TypeOK', TruthsKeyed, TruthsKeyed',
           NEW P \in SUBSET provide, NEW X \in SUBSET external, NEW gc \in BOOLEAN,
           truths' = TruthsAfter(P \cup X, gc), now' = now
    PROVE  Store!Change
<1> DEFINE New == Storable(P \cup X)
<1>1. \A p \in P \cup X : p.ttl \in Int
  BY DEF TypeOK, Offer
<1>2. now \in Nat /\ truths \subseteq Truth /\ truths' \subseteq Truth
  BY DEF TypeOK
<1>3. \A u \in New : u.exp > now
  <2> SUFFICES ASSUME NEW u \in New PROVE u.exp > now
    OBVIOUS
  <2>1. PICK p \in P \cup X :
            /\ p.ttl > 0
            /\ u = [what |-> p.what, provider |-> p.provider, user |-> p.user,
                    sp |-> p.sp, val |-> p.val, exp |-> now + p.ttl]
    BY DEF Storable
  <2>2. u.exp = now + p.ttl /\ p.ttl \in Int /\ now \in Int
    BY <2>1, <1>1, <1>2
  <2> QED BY <2>1, <2>2
<1>4. ASSUME NEW t \in truths, t.exp > now, EntryOf(t) \notin Entries'
      PROVE  \E f \in Entries' \ Entries : f.key = EntryOf(t).key
  <2>1. t \notin truths'
    BY <1>4 DEF Entries
  <2>2. PICK u \in New : SameTruthKey(t, u)
    BY <2>1, <1>4 DEF TruthsAfter, Valid
  <2>3. u \in truths' /\ EntryOf(u) \in Entries'
    BY <2>2 DEF TruthsAfter, Entries
  <2>4. EntryOf(u).key = EntryOf(t).key
    BY <2>2, EntryKeys
  <2>5. CASE EntryOf(u) \notin Entries
    BY <2>3, <2>4, <2>5
  <2>6. CASE EntryOf(u) \in Entries
    <3>1. PICK v \in truths : EntryOf(u) = EntryOf(v)
      BY <2>6 DEF Entries
    <3>2. SameTruthKey(t, v)
      BY <3>1, <2>4, EntryKeys
    <3>3. t = v
      BY <3>2 DEF TruthsKeyed
    <3> QED BY <1>4, <2>3, <3>1, <3>3
  <2> QED BY <2>5, <2>6
<1>5. ASSUME NEW f \in Entries', f \notin Entries PROVE f.exp > now
  <2>1. PICK u \in truths' : f = EntryOf(u)
    BY <1>5 DEF Entries
  <2>2. u \in New
    BY <1>5, <2>1 DEF TruthsAfter, Entries
  <2> QED BY <2>1, <2>2, <1>3 DEF EntryOf
<1>6. \A e \in Entries \ Entries' :
          ~(e.exp > now) \/ \E f \in Entries' \ Entries : f.key = e.key
  <2> SUFFICES ASSUME NEW e \in Entries, e \notin Entries', e.exp > now
               PROVE  \E f \in Entries' \ Entries : f.key = e.key
    OBVIOUS
  <2>1. PICK t \in truths : e = EntryOf(t)
    BY DEF Entries
  <2>2. t.exp > now
    BY <2>1 DEF EntryOf
  <2> QED BY <1>4, <2>1, <2>2
<1>7. Store!Keyed'
  BY KeyedEntries, PTL
<1> QED BY <1>5, <1>6, <1>7 DEF Store!Change, Store!Alive

\* A step that leaves the clock and the table alone is a stutter of the store.
LEMMA TableStutters ==
    ASSUME now' = now, truths' = truths PROVE UNCHANGED <<now, Entries>>
BY DEF Entries

\* The solver implements the store: whatever a timestep reads and garbage it
\* collects, a truth that is alive leaves the cache only for another of its key.
THEOREM StoreImplemented == Spec => KeepsTruths
<1>1. Init => Store!Init
  <2> SUFFICES ASSUME Init PROVE Store!Init
    OBVIOUS
  <2>1. \A t, u \in InitialTruths : t.what = u.what => t = u
    BY SolverAssumption
  <2>2. TruthsKeyed
    BY <2>1 DEF Init, TruthsKeyed, SameTruthKey
  <2> QED BY <2>2, KeyedEntries DEF Init, Store!Init
<1>2. TypeOK /\ TypeOK' /\ TruthsKeyed /\ TruthsKeyed' /\ [Next]_vars
        => [Store!Next]_<<now, Entries>>
  <2> SUFFICES ASSUME TypeOK, TypeOK', TruthsKeyed, TruthsKeyed', [Next]_vars
               PROVE  [Store!Next]_<<now, Entries>>
    OBVIOUS
  <2>1. ASSUME NEW N \in SUBSET need, NEW O \in SUBSET observe, NEW P \in SUBSET provide,
               NEW X \in SUBSET external, NEW L \in SUBSET leave, NEW gc \in BOOLEAN,
               Timestep(N, O, P, X, L, gc)
        PROVE  Store!Change
    BY <2>1, TimestepChanges DEF Timestep
  <2>2. ASSUME NEW N \in SUBSET need, NEW O \in SUBSET observe, NEW P \in SUBSET provide,
               NEW X \in SUBSET external, NEW L \in SUBSET leave,
               AbortedTimestep(N, O, P, X, L)
        PROVE  UNCHANGED <<now, Entries>>
    BY <2>2, TableStutters DEF AbortedTimestep
  <2>3. ASSUME NEW r \in Requests, Request(r) PROVE UNCHANGED <<now, Entries>>
    BY <2>3, TableStutters DEF Request, tables
  <2>4. ASSUME NEW c \in Clients, Stop(c) PROVE UNCHANGED <<now, Entries>>
    BY <2>4, TableStutters DEF Stop, tables
  <2>5. ASSUME NEW o \in Offers, Volunteer(o) \/ Hear(o) PROVE UNCHANGED <<now, Entries>>
    BY <2>5, TableStutters DEF Volunteer, Hear, tables
  <2>6. ASSUME NEW t \in tasks, NEW o \in Offers, Resolve(t, o)
        PROVE  UNCHANGED <<now, Entries>>
    BY <2>6, TableStutters DEF Resolve, tables
  <2>7. CASE Clock
    BY <2>7 DEF Clock, tables, Entries, Store!Tick, Store!Next
  <2>8. CASE UNCHANGED vars
    BY <2>8, TableStutters DEF vars, tables
  <2> QED BY <2>1, <2>2, <2>3, <2>4, <2>5, <2>6, <2>7, <2>8 DEF Next, Store!Next
<1> QED BY <1>1, <1>2, TypeCorrect, CacheSound, PTL DEF Spec, KeepsTruths, Store!Spec

-----------------------------------------------------------------------------
(* Clients that have left.                                                 *)

Finite ==
    /\ IsFiniteSet(need) /\ IsFiniteSet(observe) /\ IsFiniteSet(leave)
    /\ IsFiniteSet(provide) /\ IsFiniteSet(external)

\* What a client sent before it left is read before its notice.
LastWords ==
    /\ leave \subseteq stopped
    /\ \A s \in need \cup observe \cup subscribers : s.who \in stopped => s.who \in leave

LeftInv == Finite /\ LastWords

\* A timestep of one datagram that reads a notice reads nothing else.
LEMMA NoticeAlone ==
    ASSUME Finite, MaxBatch = 1,
           NEW N \in SUBSET need, NEW O \in SUBSET observe, NEW P \in SUBSET provide,
           NEW X \in SUBSET external, NEW L \in SUBSET leave, Batch(N, O, P, X, L), L # {}
    PROVE  N = {} /\ O = {} /\ P = {} /\ X = {}
<1>1. IsFiniteSet(N) /\ IsFiniteSet(O) /\ IsFiniteSet(P) /\ IsFiniteSet(X) /\ IsFiniteSet(L)
  BY FS_Subset DEF Finite
<1>2. /\ Cardinality(N) \in Nat /\ Cardinality(O) \in Nat /\ Cardinality(P) \in Nat
      /\ Cardinality(X) \in Nat /\ Cardinality(L) \in Nat
  BY <1>1, FS_CardinalityType
<1>3. Cardinality(L) # 0
  BY <1>1, FS_EmptySet
<1>4. Cardinality(N) + Cardinality(O) + Cardinality(P) + Cardinality(X) + Cardinality(L) <= 1
  BY DEF Batch
<1>5. Cardinality(N) = 0 /\ Cardinality(O) = 0 /\ Cardinality(P) = 0 /\ Cardinality(X) = 0
  BY <1>2, <1>3, <1>4
<1> QED BY <1>1, <1>5, FS_EmptySet

\* Reading keeps the last words last.
LEMMA ReadKeepsLast ==
    ASSUME LeftInv, MaxBatch = 1,
           NEW N \in SUBSET need, NEW O \in SUBSET observe, NEW P \in SUBSET provide,
           NEW X \in SUBSET external, NEW L \in SUBSET leave, Batch(N, O, P, X, L),
           Consume(N, O, P, X, L), UNCHANGED stopped,
           subscribers' = SubscribersAfter(N \cup O, L) \/ (L = {} /\ UNCHANGED subscribers)
    PROVE  LeftInv'
<1>1. Finite'
  BY FS_Subset DEF LeftInv, Finite, Consume
<1>2. /\ need' \subseteq need /\ observe' \subseteq observe /\ leave' = leave \ L
      /\ leave' \subseteq stopped'
  BY DEF Consume, LeftInv, LastWords
<1>3. CASE L = {}
  <2>1. subscribers' \subseteq subscribers \cup need \cup observe
    BY <1>3 DEF SubscribersAfter
  <2> QED BY <1>1, <1>2, <1>3, <2>1 DEF LeftInv, LastWords
<1>4. CASE L # {}
  <2>1. N = {} /\ O = {}
    BY <1>4, NoticeAlone DEF LeftInv
  <2>2. \A s \in need \cup observe : s.who \notin L
    BY <2>1 DEF Batch
  <2>3. \A s \in subscribers' : s \in subscribers /\ s.who \notin L
    BY <1>4, <2>1 DEF SubscribersAfter
  <2> QED BY <1>1, <1>2, <2>2, <2>3 DEF LeftInv, LastWords
<1> QED BY <1>3, <1>4

LEMMA LeftStep == MaxBatch = 1 /\ LeftInv /\ [Next]_vars => LeftInv'
<1> SUFFICES ASSUME MaxBatch = 1, LeftInv, [Next]_vars PROVE LeftInv'
  OBVIOUS
<1>1. ASSUME NEW N \in SUBSET need, NEW O \in SUBSET observe, NEW P \in SUBSET provide,
             NEW X \in SUBSET external, NEW L \in SUBSET leave, NEW gc \in BOOLEAN,
             Timestep(N, O, P, X, L, gc)
      PROVE  LeftInv'
  BY <1>1, ReadKeepsLast DEF Timestep
<1>2. ASSUME NEW N \in SUBSET need, NEW O \in SUBSET observe, NEW P \in SUBSET provide,
             NEW X \in SUBSET external, NEW L \in SUBSET leave,
             AbortedTimestep(N, O, P, X, L)
      PROVE  LeftInv'
  <2>1. /\ Batch(N, O, P, X, L) /\ Consume(N, O, P, X, L) /\ UNCHANGED stopped
        /\ AnswersClash(N) \/ OffersClash(P \cup X)
        /\ subscribers' \in {subscribers, SubscribersAfter(N \cup O, L)}
    BY <1>2 DEF AbortedTimestep
  <2>2. L = {}
    <3> SUFFICES ASSUME L # {} PROVE FALSE
      OBVIOUS
    <3>1. N = {} /\ P = {} /\ X = {}
      BY <2>1, NoticeAlone DEF LeftInv
    <3> QED BY <2>1, <3>1 DEF AnswersClash, Satisfiable, OffersClash
  <2> QED BY <2>1, <2>2, ReadKeepsLast
<1>3. ASSUME NEW r \in Requests, Request(r) PROVE LeftInv'
  <2>1. Finite'
    <3>1. IsFiniteSet(need \cup {r.sub}) /\ IsFiniteSet(observe \cup {r.sub})
      BY FS_AddElement DEF LeftInv, Finite
    <3> QED BY <1>3, <3>1 DEF Request, LeftInv, Finite
  <2>2. /\ need' \cup observe' \subseteq need \cup observe \cup {r.sub} /\ r.sub.who \notin stopped
        /\ UNCHANGED <<subscribers, leave, stopped>>
    BY <1>3 DEF Request, tables
  <2> QED BY <2>1, <2>2 DEF LeftInv, LastWords
<1>4. ASSUME NEW c \in Clients, Stop(c) PROVE LeftInv'
  <2>1. Finite'
    BY <1>4, FS_AddElement DEF Stop, LeftInv, Finite
  <2> QED BY <1>4, <2>1 DEF Stop, tables, LeftInv, LastWords
<1>5. ASSUME NEW o \in Offers, Volunteer(o) \/ Hear(o) PROVE LeftInv'
  <2>1. Finite'
    BY <1>5, FS_AddElement DEF Volunteer, Hear, LeftInv, Finite
  <2> QED BY <1>5, <2>1 DEF Volunteer, Hear, tables, LeftInv, LastWords
<1>6. ASSUME NEW t \in tasks, NEW o \in Offers, Resolve(t, o) PROVE LeftInv'
  <2>1. Finite'
    BY <1>6, FS_AddElement DEF Resolve, LeftInv, Finite
  <2> QED BY <1>6, <2>1 DEF Resolve, tables, LeftInv, LastWords
<1>7. CASE Clock
  BY <1>7 DEF Clock, tables, channels, LeftInv, Finite, LastWords
<1>8. CASE UNCHANGED vars
  BY <1>8 DEF vars, tables, channels, LeftInv, Finite, LastWords
<1> QED BY <1>1, <1>2, <1>3, <1>4, <1>5, <1>6, <1>7, <1>8 DEF Next

\* Where a timestep consumes one datagram, as with the version of Bud that
\* Gemfile.lock fixes, remove_subscriptions takes effect for good: no need that a
\* client sent before it left subscribes it again, whatever else is read between.
THEOREM LeaversStayAway == MaxBatch = 1 /\ Spec => []LeaverUnsubscribed
<1> SUFFICES ASSUME MaxBatch = 1 PROVE Spec => []LeaverUnsubscribed
  OBVIOUS
<1>1. Init => LeftInv
  BY FS_EmptySet DEF Init, LeftInv, Finite, LastWords
<1>2. LeftInv /\ [Next]_vars => LeftInv'
  BY LeftStep
<1>3. LeftInv => LeaverUnsubscribed
  BY DEF LeftInv, LastWords, LeaverUnsubscribed
<1> QED BY <1>1, <1>2, <1>3, PTL DEF Spec
=============================================================================
