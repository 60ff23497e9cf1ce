------------------------------- MODULE Solver -------------------------------
(***************************************************************************)
(* The tactic solver of one signpost (psp/lib/tactic_solver/solver.rb): a  *)
(* Bud program whose tables hold the truths it has cached and the          *)
(* subscriptions of the tactics, daemons and questions that talk to it.    *)
(* One Timestep is one Bud timestep: it consumes datagrams from the five   *)
(* channels, evaluates every rule against the tables as they were at its   *)
(* start, flushes the answers, and lets the deferred deletions and then    *)
(* the deferred insertions take effect for the next timestep.              *)
(***************************************************************************)
EXTENDS Integers, FiniteSets

CONSTANTS
    Resources, Domains, \* a truth is named RESOURCE@DOMAIN
    ANY,                \* the wildcard domain and the wildcard signpost
    Clients,            \* the ip:port of each tactic, daemon and question
    Users, GLOBAL,      \* users, and the user_info of truths for everybody
    UserOf,             \* the user_info a client was created for
    Signposts, Me,      \* the signposts of the domain, and this one
    Providers, Values,
    Requests,           \* the needs and observations clients may send
    Offers,             \* the truths tactics and other signposts may provide
    InitialTruths,      \* what add_initial_truths stores
    MaxTime,            \* bound on the clock
    MaxInFlight,        \* bound on unread requests and leave notices, and on unread offers
    MaxBatch            \* most datagrams one timestep consumes

What == Resources \X (Domains \cup {ANY})
AnyForm(what) == <<what[1], ANY>>

Subscription == [what : What, who : Clients, sp : Signposts \cup {ANY}, user : Users]
Offer == [what : Resources \X Domains, provider : Providers,
          user : Users \cup {GLOBAL}, sp : Signposts, val : Values, ttl : Int]
Truth == [what : Resources \X Domains, provider : Providers,
          user : Users \cup {GLOBAL}, sp : Signposts, val : Values, exp : Int]
Delivery == [who : Clients, what : Resources \X Domains, provider : Providers,
             user : Users \cup {GLOBAL}, sp : Signposts, val : Values]
Task == [at : Signposts, what : What, user : Users]
Never == -1

ASSUME SolverAssumption ==
    /\ Me \in Signposts
    /\ ANY \notin Signposts \cup Domains
    /\ GLOBAL \notin Users
    /\ UserOf \in [Clients -> Users]
    /\ Requests \subseteq [observe : BOOLEAN, sub : Subscription]
    /\ \A r \in Requests : /\ r.sub.user = UserOf[r.sub.who]
                           /\ ~r.observe => r.sub.what[2] # ANY
    /\ Offers \subseteq Offer
    /\ InitialTruths \subseteq Truth
    /\ \A t, u \in InitialTruths : t.what = u.what => t = u
    /\ \A t \in InitialTruths : t.exp > 0
    /\ MaxTime \in Nat /\ MaxInFlight \in Nat /\ MaxBatch \in Nat

VARIABLES
    now,            \* Time.now.to_i
    truths,         \* table :truths
    subscribers,    \* table :truth_subscribers
    need, observe,  \* datagrams waiting on need_truth and observe_truth
    provide,        \* ... on provide_truth, from tactics of this signpost
    external,       \* ... on provide_truth_from_external, from other signposts
    leave,          \* ... on remove_subscriptions
    out,            \* needed_truth datagrams the last timestep of this second flushed
    distributed,    \* what the last timestep gave to distribute_truths
    tasks,          \* explorations and remote resolutions without a result
    stopped,        \* clients that have terminated
    open,           \* history: needs read, not answered, client not gone
    aborted,        \* history: some timestep raised KeyConstraintError
    read,           \* history: when each offer was last read
    collected       \* history: when garbage was last collected

tables == <<truths, subscribers>>
channels == <<need, observe, provide, external, leave>>
effects == <<out, distributed, tasks>>
history == <<open, aborted, read, collected>>
vars == <<now, tables, channels, effects, stopped, history>>

TypeOK ==
    /\ now \in Nat
    /\ truths \subseteq Truth
    /\ subscribers \subseteq Subscription
    /\ need \subseteq Subscription /\ observe \subseteq Subscription
    /\ provide \subseteq Offer /\ external \subseteq Offer
    /\ leave \subseteq Clients /\ stopped \subseteq Clients
    /\ out \subseteq Delivery
    /\ distributed \subseteq Offer
    /\ tasks \subseteq Task
    /\ open \subseteq Subscription
    /\ aborted \in BOOLEAN
    /\ read \in [Offers -> Nat \cup {Never}]
    /\ collected \in Nat

Init ==
    /\ now = 0
    /\ truths = InitialTruths
    /\ subscribers = {}
    /\ need = {} /\ observe = {} /\ provide = {} /\ external = {} /\ leave = {}
    /\ out = {} /\ distributed = {} /\ tasks = {}
    /\ stopped = {}
    /\ open = {} /\ aborted = FALSE
    /\ read = [o \in Offers |-> Never] /\ collected = 0

-----------------------------------------------------------------------------
(* The rules of bloom :tactic_comms. FoundForAnyone, ByNameAnyUser,        *)
(* ByNameSameUser, SatisfiesExpired, StorableZero, TruthsDisplaced,        *)
(* TruthsRenewed, TruthsUncollected and SubscribersKept are faulty         *)
(* variants: each breaks a property checked below.                         *)

Valid(t) == t.exp > now

SatisfiesExpired(t, n) ==
    /\ t.what = n.what
    /\ t.user \in {GLOBAL, n.user}
    /\ n.sp \in {ANY, t.sp}

\* A cached truth answers a need: the user may see it, it has not expired,
\* and it was generated where the need wants it generated.
Satisfies(t, n) ==
    /\ t.what = n.what
    /\ t.user \in {GLOBAL, n.user}
    /\ Valid(t)
    /\ n.sp \in {ANY, t.sp}

DeliveryTo(who, p) ==
    [who |-> who, what |-> p.what, provider |-> p.provider,
     user |-> p.user, sp |-> p.sp, val |-> p.val]

\* satisfiable_truth_needs: the needs of a timestep joined with the cache.
Satisfiable(N) == {p \in N \X truths : Satisfies(p[2], p[1])}

CacheAnswers(N) == {DeliveryTo(p[1].who, p[2]) : p \in Satisfiable(N)}

FoundForAnyone(n, N) == \E p \in Satisfiable(N) : p[2].what = n.what

\* The test before a truth is generated looks at the satisfiable needs of the
\* whole timestep, without asking whose they are.
FoundInCache(n, N) ==
    \E p \in Satisfiable(N) :
        /\ p[2].what = n.what
        /\ p[1].user \in {n.user, GLOBAL}
        /\ n.sp \in {ANY, p[2].sp}

\* Generate here when the need names this signpost or any, else ask the one
\* it names.
TaskFor(n) ==
    [at |-> IF n.sp \in {Me, ANY} THEN Me ELSE n.sp,
     what |-> n.what, user |-> n.user]

Generated(N) == {TaskFor(n) : n \in {m \in N : ~FoundInCache(m, N)}}

ByNameAnyUser(P) ==
    {DeliveryTo(p[2].who, p[1]) : p \in {q \in P \X subscribers : q[2].what = q[1].what}}

ByNameSameUser(P) ==
    {DeliveryTo(p[2].who, p[1]) :
        p \in {q \in P \X subscribers : q[2].what = q[1].what /\ q[1].user = q[2].user}}

\* A new truth goes to those subscribed to its very name who may see it ...
ByName(P) ==
    {DeliveryTo(p[2].who, p[1]) :
        p \in {q \in P \X subscribers :
                 /\ q[2].what = q[1].what
                 /\ q[1].user \in {GLOBAL, q[2].user}}}

\* ... and to those subscribed to its resource in any domain.
ByResource(P) ==
    {DeliveryTo(p[2].who, p[1]) :
        p \in {q \in P \X subscribers :
                 /\ q[2].what = AnyForm(q[1].what)
                 /\ q[2].sp \in {ANY, q[1].sp}}}

SameTruthKey(t, u) ==
    /\ t.what = u.what /\ t.provider = u.provider
    /\ t.user = u.user /\ t.sp = u.sp

SameSubscriptionKey(s, r) == s.what = r.what /\ s.who = r.who /\ s.sp = r.sp

StorableZero(P) ==
    {[what |-> p.what, provider |-> p.provider, user |-> p.user,
      sp |-> p.sp, val |-> p.val, exp |-> now + p.ttl] : p \in P}

\* storable_truths: only a positive ttl makes a truth cacheable.
Storable(P) ==
    {[what |-> p.what, provider |-> p.provider, user |-> p.user,
      sp |-> p.sp, val |-> p.val, exp |-> now + p.ttl] :
        p \in {q \in P : q.ttl > 0}}

TruthsDisplaced(P, gc) ==
    {t \in truths : /\ gc => Valid(t)
                    /\ \A u \in P : ~SameTruthKey(t, u)}
        \cup Storable(P)

TruthsRenewed(P, gc) ==
    {IF gc THEN [t EXCEPT !.exp = @ + 1] ELSE t :
        t \in {u \in truths : /\ gc => Valid(u)
                              /\ \A v \in Storable(P) : ~SameTruthKey(u, v)}}
        \cup Storable(P)

TruthsUncollected(P, gc) ==
    {t \in truths : \A u \in Storable(P) : ~SameTruthKey(t, u)} \cup Storable(P)

\* Deferred deletions come before deferred insertions.
TruthsAfter(P, gc) ==
    {t \in truths : /\ gc => Valid(t)
                    /\ \A u \in Storable(P) : ~SameTruthKey(t, u)}
        \cup Storable(P)

SubscribersKept(S, L) ==
    {s \in subscribers : \A r \in S : ~SameSubscriptionKey(s, r)} \cup S

SubscribersAfter(S, L) ==
    {s \in subscribers : /\ s.who \notin L
                         /\ \A r \in S : ~SameSubscriptionKey(s, r)}
        \cup S

\* Two tuples of a scratch with one key and different values raise
\* KeyConstraintError: an answer's key has no provider, so two cached truths
\* that satisfy one need clash, and so do two values provided for one truth.
AnswersClash(N) ==
    \E p, q \in Satisfiable(N) :
        /\ p[1].who = q[1].who /\ p[1].user = q[1].user
        /\ p[2].what = q[2].what /\ p[2].sp = q[2].sp
        /\ DeliveryTo(p[1].who, p[2]) # DeliveryTo(q[1].who, q[2])

OffersClash(P) ==
    \E p, q \in P : SameTruthKey(p, q) /\ <<p.val, p.ttl>> # <<q.val, q.ttl>>

-----------------------------------------------------------------------------
(* A timestep over a batch of datagrams, the timer of garbage collection   *)
(* having fired (gc) or not.                                               *)

\* Loopback keeps the order of one sender: a client's last words come last.
Batch(N, O, P, X, L) ==
    /\ N \subseteq need /\ O \subseteq observe
    /\ P \subseteq provide /\ X \subseteq external /\ L \subseteq leave
    /\ Cardinality(N) + Cardinality(O) + Cardinality(P)
         + Cardinality(X) + Cardinality(L) <= MaxBatch
    /\ \A s \in (need \ N) \cup (observe \ O) : s.who \notin L

Consume(N, O, P, X, L) ==
    /\ need' = need \ N
    /\ observe' = observe \ O
    /\ provide' = provide \ P
    /\ external' = external \ X
    /\ leave' = leave \ L

Answers(n, D) == \E m \in D : m.who = n.who /\ m.what = n.what

Timestep(N, O, P, X, L, gc) ==
    /\ Batch(N, O, P, X, L)
    /\ ~AnswersClash(N) /\ ~OffersClash(P \cup X)
    /\ Consume(N, O, P, X, L)
    /\ out' = CacheAnswers(N) \cup ByName(P \cup X) \cup ByResource(P \cup X)
    /\ tasks' = tasks \cup Generated(N)
    /\ distributed' = P
    /\ truths' = TruthsAfter(P \cup X, gc)
    /\ subscribers' = SubscribersAfter(N \cup O, L)
    /\ open' = {n \in open \cup N : n.who \notin L /\ ~Answers(n, out')}
    /\ read' = [o \in Offers |-> IF o \in P \cup X THEN now ELSE read[o]]
    /\ collected' = IF gc THEN now ELSE collected
    /\ UNCHANGED <<now, stopped, aborted>>

\* The error leaves the rules that ran before it deferred and nothing flushed.
AbortedTimestep(N, O, P, X, L) ==
    /\ Batch(N, O, P, X, L)
    /\ AnswersClash(N) \/ OffersClash(P \cup X)
    /\ Consume(N, O, P, X, L)
    /\ out' = {} /\ distributed' = {}
    /\ subscribers' \in {subscribers, SubscribersAfter(N \cup O, L)}
    /\ aborted' = TRUE
    /\ UNCHANGED <<now, truths, tasks, stopped, open, read, collected>>

-----------------------------------------------------------------------------
(* The processes around the solver.                                        *)

Room == Cardinality(need) + Cardinality(observe) + Cardinality(leave) < MaxInFlight
OfferRoom == Cardinality(provide) + Cardinality(external) < MaxInFlight

\* Tactic.add_requirement and add_observer, and the bootstrap of Question.
Request(r) ==
    /\ Room
    /\ r.sub.who \notin stopped
    /\ IF r.observe
       THEN observe' = observe \cup {r.sub} /\ UNCHANGED need
       ELSE need' = need \cup {r.sub} /\ UNCHANGED observe
    /\ UNCHANGED <<now, tables, provide, external, leave, effects, stopped, history>>

\* Tactic.stop_tactic and Question.terminate_question.
Stop(c) ==
    /\ Room
    /\ c \notin stopped
    /\ stopped' = stopped \cup {c}
    /\ leave' = leave \cup {c}
    /\ UNCHANGED <<now, tables, need, observe, provide, external, effects, history>>

\* Tactic.add_truth labels a truth with this node, by a daemon or a tactic
\* that stays active.
Volunteer(o) ==
    /\ OfferRoom
    /\ o.sp = Me
    /\ provide' = provide \cup {o}
    /\ UNCHANGED <<now, tables, need, observe, external, leave, effects, stopped, history>>

\* add_external_truth: another signpost sent a truth, of any signpost.
Hear(o) ==
    /\ OfferRoom
    /\ external' = external \cup {o}
    /\ UNCHANGED <<now, tables, need, observe, provide, leave, effects, stopped, history>>

\* The generation a need started comes to a result. A tactic that fails, or
\* a signpost that never answers, is a task that keeps waiting.
Resolve(t, o) ==
    /\ t \in tasks
    /\ o.what = t.what /\ o.user \in {GLOBAL, t.user}
    /\ tasks' = tasks \ {t}
    /\ IF t.at = Me
       THEN o.sp = Me /\ provide' = provide \cup {o} /\ UNCHANGED external
       ELSE external' = external \cup {o} /\ UNCHANGED provide
    /\ UNCHANGED <<now, tables, need, observe, leave, out, distributed, stopped, history>>

Clock ==
    /\ now < MaxTime
    /\ now' = now + 1
    /\ out' = {}
    /\ UNCHANGED <<tables, channels, distributed, tasks, stopped, history>>

Next ==
    \/ \E N \in SUBSET need, O \in SUBSET observe, P \in SUBSET provide,
          X \in SUBSET external, L \in SUBSET leave :
           \/ \E gc \in BOOLEAN : Timestep(N, O, P, X, L, gc)
           \/ AbortedTimestep(N, O, P, X, L)
    \/ \E r \in Requests : Request(r)
    \/ \E c \in Clients : Stop(c)
    \/ \E o \in Offers : Volunteer(o) \/ Hear(o)
    \/ \E t \in tasks, o \in Offers : Resolve(t, o)
    \/ Clock

Spec == Init /\ [][Next]_vars

-----------------------------------------------------------------------------
(* Fairness: the reactor eventually reads every datagram (loopback loses   *)
(* none), and every generation eventually comes to a result.               *)

Reads(N, O, P, X, L) ==
    \/ \E gc \in BOOLEAN : Timestep(N, O, P, X, L, gc)
    \/ AbortedTimestep(N, O, P, X, L)

ReadNeed(n) == n \in need /\ Reads({n}, {}, {}, {}, {})
ReadProvided(o) == o \in provide /\ Reads({}, {}, {o}, {}, {})
ReadExternal(o) == o \in external /\ Reads({}, {}, {}, {o}, {})

Fairness ==
    /\ \A r \in Requests : WF_vars(ReadNeed(r.sub))
    /\ \A o \in Offers : WF_vars(ReadProvided(o)) /\ WF_vars(ReadExternal(o))
    /\ \A t \in {TaskFor(r.sub) : r \in Requests} :
           WF_vars(\E o \in Offers : Resolve(t, o))

FairSpec == Spec /\ Fairness

-----------------------------------------------------------------------------
(* Properties.                                                             *)

\* A truth made for one user reaches only clients working for that user, or
\* clients that asked for its resource in every domain, which solver.rb serves
\* "REGARDLESS of the user info": a subscription or a cache hit made under one
\* user never lets another user's truth through.
UserInfoRespected ==
    \A m \in out :
        \/ m.user \in {GLOBAL, UserOf[m.who]}
        \/ \E r \in Requests : r.sub.who = m.who /\ r.sub.what = AnyForm(m.what)

\* A need that was read and not answered is never forgotten: its client is
\* subscribed, and a generation for its user is under way or its result is
\* waiting to be read. It is the absence of a lost wake-up between reading a
\* need, subscribing its client and reading the truth that answers it, whatever
\* shares a timestep. A timestep that raised loses what it read.
OpenNeedPending ==
    ~aborted =>
        \A n \in open :
            /\ n \in subscribers
            /\ \/ \E t \in tasks : t.what = n.what /\ t.user = n.user
               \/ \E o \in provide \cup external :
                      o.what = n.what /\ o.user \in {GLOBAL, n.user}

\* No storable truth of o's key has been read later than o.
Newest(o) == \A u \in Offers : u.ttl > 0 /\ SameTruthKey(u, o) => read[u] <= read[o]

Untouched(t) == \A u \in Offers : u.ttl > 0 /\ SameTruthKey(u, t) => read[u] = Never

\* A row is the newest storable truth of its key that was read, or an initial
\* one no truth has replaced. Its lifetime ends when its provider said it would,
\* counted from when it was read, and it had not ended at the last collection.
RowAsProvided(t) ==
    /\ t.exp > collected
    /\ \/ t \in InitialTruths /\ Untouched(t)
       \/ \E o \in Offers :
              /\ SameTruthKey(t, o) /\ t.val = o.val
              /\ o.ttl > 0 /\ read[o] # Never /\ t.exp = read[o] + o.ttl
              /\ Newest(o)

\* What a client is sent was read this second or is still alive.
SentAlive(m) ==
    \/ \E t \in InitialTruths : m = DeliveryTo(m.who, t) /\ Valid(t)
    \/ \E o \in Offers :
           /\ m = DeliveryTo(m.who, o) /\ read[o] # Never
           /\ read[o] = now \/ now < read[o] + o.ttl

\* A provider's lifetime is kept to the second, from the reading of its truth to
\* the last answer made of it: a collection, an overwriting, a truth that is not
\* cacheable, or another provider's truth neither extends a row's lifetime nor
\* keeps it past a collection after its end, and no need is answered from a row
\* whose lifetime has ended although it has not been collected yet.
CacheWithinTTL ==
    /\ \A t \in truths : RowAsProvided(t)
    /\ \A m \in out : SentAlive(m)

\* The cache holds one truth for each name, provider, user and signpost,
\* whatever mixture of local and remote truths and expiries has been applied.
TruthsKeyed == \A t, u \in truths : SameTruthKey(t, u) => t = u

EntryOf(t) == [key |-> <<t.what, t.provider, t.user, t.sp>>, val |-> t.val, exp |-> t.exp]

Entries == {EntryOf(t) : t \in truths}

Store == INSTANCE TruthStore WITH time <- now, store <- Entries

\* The table of truths is a cache with lifetimes: in whatever timesteps truths
\* are provided, replaced, refused storage and collected, one that is alive goes
\* only for another of its key, so that a need it answers is not left to a
\* generation that was not started.
KeepsTruths == Store!Spec

\* remove_subscriptions takes effect for good: a client that has left holds a
\* subscription only until its notice is read. Its late needs must not
\* resubscribe it.
LeaverUnsubscribed ==
    \A s \in subscribers : s.who \in stopped => s.who \in leave

\* A client that names a signpost in its needs and observations of a truth is
\* only given truths generated there. It fails: the rule for truths asked for
\* by name does not look at the signpost.
OnlyThatSignpost ==
    \A m \in out :
        \E r \in Requests :
            /\ r.sub.who = m.who
            /\ r.sub.what \in {m.what, AnyForm(m.what)}
            /\ r.sub.sp \in {ANY, m.sp}

\* Once a need has been read it is answered, unless a timestep raised: the
\* tactic's next block, or the HTTP client behind a question, does not hang.
NeedAnswered ==
    \A r \in Requests : (r.sub \in open) ~> (r.sub \notin open \/ aborted)
=============================================================================
