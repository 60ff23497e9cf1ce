# Signpost: a verification development

Signpost lets the devices of one user find and reach each other whatever network they are on.
Every device, or a machine in the cloud, runs a *signpost*. A signpost keeps a cache of *truths*
(an address, a key, a tunnel: `RESOURCE@DOMAIN`, made for one user or for everybody, generated on
one signpost, with a lifetime). What it does not know it has generated by *tactics*, scripts in
processes of their own that each drive one tunnel program and may in turn need other truths.
Signposts of a domain flood their truths to each other and can ask each other to generate one.

This directory holds TLA+ models of the parts of the system where concurrency, ordering and failure
matter, TLC runs that check them on small instances, and proofs of the main theorems that the TLA+
proof system checks for every instance. Line numbers are those of `src/`.

## Inventory

### Tactic solver (`psp/lib/tactic_solver/solver.rb`, `tactic_protocol.rb`)

A Bud program. State: the tables `truths` (keyed by name, provider, user and signpost, with a
lifetime) and `truth_subscribers` (keyed by name, client and signpost). It reads five UDP channels:
needs, observations, truths from this signpost's tactics, truths from other signposts, and notices
of clients that leave. In one *timestep* Bud reads what has arrived, evaluates all rules against the
tables as they were, sends what the rules derive, and applies the deletions (`<-`) and then the
insertions (`<+`, `<+-`) to the tables. A need is answered from the cache; if nothing in the cache
satisfies it, the solver calls the tactic pool or the communication centre. A new truth is stored if
its ttl is positive, sent to those who subscribe to its name, and to those who subscribe to its
resource `@ANY`.

Hard: a need, the truth that answers it, an expiry and the client's departure can share a timestep
or arrive in any order; the cache hit of one user must not become the answer of another; two tuples
that agree on a key raise `KeyConstraintError` in the middle of a timestep. Correct means: no truth
crosses users, no need is forgotten, the cache holds one truth to a key, with the lifetime its
provider gave it and no longer, a client that left stays unsubscribed, every need is answered in the end.

### Tactic pool, threads, tactics (`tactic_pool.rb`, `tactic.rb`)

`TacticPool` keeps an `EM::Queue` of idle `TacticThread`s for each kind of tactic. A request takes
an idle thread or creates one and waits for any. A `TacticThread` owns a script's process and its
socket and passes what the script says to its delegate, the `Tactic` (a Bud instance) that stands
for one request. A script that says `recycle` has its Tactic unsubscribe, which stops a second
later, and its thread goes back to the queue at once.

Hard: requests, connecting processes and recycling threads race for the queue; the old Tactic keeps
a reference to its thread while the next request has it; scripts die or never recycle. Correct
means: a thread serves one request at a time, no request waits beside an idle thread or without a
process on its way, every request is served, stopped tactics leave no subscription behind.

### Tactic helper (`tactic_helper.rb`, `tactic_helpers.rb`)

The library of the scripts: it stores truths with a version number, runs each `when` block once
all truths it requires are there and again when one has a new version, and resets on recycling.
Hard: truths come in any order and between recyclings. Correct means: a block never runs without
what it requires, and runs for every new version.

### Communication centre (`comms_agent.rb`)

Keeps the open channels (TCP, JSON lines) to other signposts and a cache of hashes of what it has
sent on in the last 30 seconds. New channels exchange names, lists of signposts and all truths. A
truth or query that is not in the cache is sent on to all channels but the one it came from, and
acted on. Hard: copies of data over several paths, cycles, channels that break, queries for what the
other knows already. Correct means: floods end, every signpost ends up with the last truth of each
other, what a broken channel lost is made up for.

### Question and solving server (`question.rb`, `runner_solver.rb`)

A Question is a client of the solver that asks for one truth, runs a callback on what it is sent and
unsubscribes 0.1 seconds later. The solving server makes one for each line it reads from a TCP
client and answers within 30 seconds. Hard: a second answer before the timer, an answer after the
timeout, several requests on one connection.

### Routing information (`psp/lib/routing_info`)

An earlier signpost, three Bud programs in one. State: a table of nodes with the time of the last
heartbeat, a table of devices, a table of links with strategies, interfaces and costs, and
`link_ttls`, when each link is over. A signpost connects to a server, is told of the other nodes and
connects to each; a heartbeat every second keeps it in their tables, and a node that is silent for
more than two is removed with its links. Every tactic evaluates a new device's links in a thread of
its own and says for how long the result holds; a link that is over is evaluated again.

Hard: connects, discoveries and heartbeats overtake each other; a node restarts before it is found
dead; evaluations take long, fail, time out or say nothing. Correct means: all nodes come to know
each other, a node that stopped is forgotten by all, an own link is never given up.

### Frost (`frost`)

OCaml prototypes. `client.ml` sends a `Hello` datagram with its address every two seconds;
`serverSignalling.ml` keeps the last address of each node in `nodes.ml`, from which the DNS server
answers. `sp_controller.ml` is an OpenFlow controller: it learns the port of each Ethernet address
and installs flows. Hard: lost and late datagrams, a server that starts again, hosts that move while
flows for them stand. Correct means: the table comes to hold the last address of each client, a
packet goes where its destination was last seen.

### Tactic engine (`tactic_engine`)

`stackability.ml` searches for all stacks of tactics that can be run over each other and add a
property each; `engine.ml` selects those with the properties asked for and connects each from its
bottom, with the addressables the tactic below has yielded. Correct means: no stack is missed, made
twice or connected in an order in which it is not possible.

### Python signpost (`psp_python`, `server`)

`server_discovery.py` keeps the list of services of the host, updated in place every 30 seconds;
`mdns.py` keeps the table of signposts that Avahi has seen. Hard: the list is changed while it is
looped over; answers of Avahi come late.

### Social network connectors (`socialnet`)

`personalSignpost.py` keeps a Twitter token in a file and the user's contacts in a SQLite database
(`sqliteController.py`). Hard: every statement is committed by itself, and the program may be killed,
or raise, between any two; the tables are made only where there is no file. The libraries beside it
(Twitter, tweepy, OAuth, httplib2) are vendored.

### DNS measurement (`dns_measurement`)

For each name server one thread runs the tests and another captures packets until a global flag is
cleared. Hard: the two threads share the flag, and so do successive measurements; a test may raise at
any point, which ends its thread at once, and leave programs running.

### Others

HTTP and DNS front ends, ticket and key stores, configuration and log (`psp/http_server`,
`psp/runner_*.rb`, `psp/lib/*.rb`): I/O around one question each. The tactics themselves
(`psp/tactics`, `tactics`): drivers of external programs. `simulation`: DNS resolvers under load.
`client_resolver`: an NSS module and Avahi clients in C. Measurement scripts, Android tools, keys,
zones, media and abandoned code.

## Models and code

`PROJECT.json` maps every definition to the lines it stands for. Each module has faulty variants of
some definitions beside them (`RecycleSilently` beside `HearRecycle`); they are not part of the
specification and stand for the bug that each property would catch.

### `Solver.tla` (with `SolverMC.tla`, `SolverProofs.tla`)

One signpost's solver and the clients around it. `truths` and `subscribers` are the two tables.
`need`, `observe`, `provide`, `external` and `leave` are the datagrams waiting on the five channels;
a set each, so that they may be read in any order, except that a client's notice that it leaves
comes after what the client sent before (one UDP socket on loopback). `out`, `distributed` and
`tasks` are what a timestep flushes to clients, gives to the communication centre, and starts in the
pool or on another signpost; `out` holds what was flushed in the present second. `open`, `aborted`,
`read` (when each offer was last read) and `collected` (when garbage last was) are history.

`Timestep(N, O, P, X, L, gc)` is one Bud timestep over the datagrams N, O, P, X and L: every rule of
`bloom :tactic_comms`, `:remove_leavers` and `:garbage_collection`, evaluated against the tables as
they were, and the deferred deletions before the deferred insertions. A timestep that puts two
tuples with one key into a scratch is `AbortedTimestep`. `Request`, `Stop`, `Volunteer`, `Hear`,
`Resolve` and `Clock` are the clients, the communication centre, the tactics' results and time.

A truth's value, name and user are members of small sets; a name is a pair of resource and domain,
because `RESOURCE@ANY` is treated apart. Time is in seconds, as `Time.now.to_i` is. What is said of
Bud is assumed from how `solver.rb` and its tests use it: instantaneous merges reach a fixpoint
within the timestep, `<-` and `<+` take effect after it, deletions first, asynchronous sends leave
at its end; a scratch raises `KeyConstraintError` on two different tuples of one key; a timestep
consumes all the datagrams the reactor has read (one with the version of Bud that `Gemfile.lock`
fixes, more with others, hence `MaxBatch`).

### `TacticPool.tla` (with `TacticPoolMC.tla`, `TacticPoolProofs.tla`)

One kind of tactic: `pool` and `waiting` are the two sides of the `EM::Queue`, `script`, `delegate`
and `threadOf` the processes and who refers to whom, `session` the life of each Tactic, the rest the
messages between script, thread, Tactic and solver. `SpawnOnIdle`, `SpawnOnNew`, `Connect` and
`HearRecycle` are `spawn_execution_for`, `register_ready_for_duty` and the recycling in
`received_data`, each with the callback that `EM::Queue` runs within it. `NoDelegate` is the
`NoMethodError` of `@_delegate.tactic_received_data` on a nil delegate, which nothing rescues: the
reactor ends, and with it the signpost (`crashed`). `StopTimer` is the second that a stopped Tactic
still runs, `ScriptReads` the script's end as `tactic_helper.rb` makes it, `ScriptDies` the end of
its process, after which the thread keeps its place (`terminated` only deletes the socket file).

### `TacticScript.tla` (with `TacticScriptMC.tla`, `TacticScriptProofs.tla`)

The inside of a script: `data`, `pending` and `versions` are `@_data`, `@_pending` and each block's
`:req_versions`; `at` is the block that `execute_user_blocks` has come to, 0 between messages. The
reactor of the script is single-threaded, so a message (`Start`, `Truth`) arrives only between
rounds; within a round `Skip`, `Run`, `Recycle` or `Raise` follow the order of the blocks. What a
block does is open, except whether it recycles. All that a request's Tactic sends at its start is
one message (`pass_on_truths` on one array). `Truth` also stands for the truths of a former request
that come after the recycling. A message that is lost is one that is not sent. `latest` and `seen`
are history: which arrival brought each truth last, and which arrivals each block last ran with;
the properties compare them and never look at the versions the code goes by.

### `Gossip.tla` (with `GossipMC.tla`, `GossipProofs.tla`)

Several signposts and their open channels, following one truth name. `store` is the part of each
signpost's truths table that has this name, `seen` its broadcast cache, `chan` the channels.
`Provide` is a truth of the signpost's own tactics with `distribute_truths`, `Ask` is
`remote_resolve`, `Drop` and the three `Receive` actions are `receive` with `broadcast` and
`perform_action_for_remote_signpost`, `Prune` the timer on the cache, `Reconnect` a channel that
breaks and `new_channel` at both its ends. The cache compares a hash of all the data: a truth that
is exported later has less time to live and is therefore other data (`aged`).

### `CommsMesh.tla` (with `CommsMeshMC.tla`, `CommsMeshProofs.tla`)

How the channels of `Gossip` come about and end. `conn` is the TCP connections, each with the two
ends of a `CommsChannel`: whether `unbind` was called there, its `@_name`, and the lines under way
to it; `channels` is each signpost's `@_channels`, `seeking` the Questions between the decision to
connect and the connection (`None` for the search in the DNS). `DnsAnswers`, `Connect` and
`ConnectFails` are the three ends of `find_signpost_from_dns` and `connect_to_signpost`; `HearHi`,
`HearNice`, `HearList` and `HearSignposts` are `receive_data` with `new_channel`,
`perform_action_for_remote_signpost` and `connect_to_signposts`; `LoseLine` is a line split over two
segments; `Break` and `Unbind` the end of a connection, which each end hears of by itself, and
`channel_closed`. What the model takes over from the code: `connect_to_signpost` asks for the address
of the domain whatever signpost it connects to, and tells signposts of one address apart by their
port; what is being connected to already is not looked at; `channel_closed` removes all channels of
the closed one's name, live ones too; a connection whose greeting is lost stays as it is.

### `Replicas.tla`

What spreading truths promises, whatever carries it: each signpost writes values one after the
other, and each other one has a copy of the last it heard of, which takes written values only and,
until something breaks, takes them one by one in the order they were written. `Gossip` implements
it with `written <- used`, the tables without each signpost's own truths as `copy`, and a channel
that broke (`reconnects > 0`) as `broken` (`CopiesAdvance`).

### `TruthStore.tla`

What the solver's cache promises, without names, users, needs or channels: entries with a key and an
expiry, of which one that is alive goes only when a newer one of its key comes. `Solver` implements
it with `time <- now` and `store <- Entries` (`KeepsTruths`).

### `SolvingServer.tla`, `ReplyService.tla` (with `SolvingServerProofs.tla`)

The connections of `runner_solver.rb`, the Question of each request, its subscription at the solver,
its callbacks and its timers of 0.1 seconds (`StopQuestion`; every callback sets one), and the
request's timer of 30 seconds (`Timeout`), which tests the connection's flag. Two requests in one
segment are not JSON; nothing rescues the error and the reactor ends (`ReceiveTwo`). `ReplyService`
is what a client may count on: each connection goes from `idle` over `waiting` to `failed` or
`answered` and from `failed` to `answered`, never back, and does not wait for ever. `SolvingServer`
implements it, with the status of a connection read from the last line it was sent (`ServesReplies`).

### `ServiceDiscovery.tla`, `MdnsClient.tla`

`ServiceDiscovery`: `service_update` with its loop over the list it removes from (`Compare`, one turn
of the loop by index), sockets opening and closing in between, and the process that ends between
the listing of pids and the question for its connections (`UpdateRaises`). `MdnsClient`: Avahi's signals
and the answers to `ResolveService`, in any order.

### `AddressBook.tla`

The program from its start to the contacts, one action for each statement that commits to the disk
and a `Kill` between any two. The triggers that `createDb` makes last are not valid SQL, so that the
start that makes the database fails, with all tables there; the next one finds the file and goes on.
`createUser` and `insertUserId` are the two commits for one contact. An empty key file ends each
later start (`Start`). That "Database has been removed" is never printed is in the model too:
`printContacts` comes before the test and connecting makes the file (`UpdateRaises`). `damaged` is
history: a kill between the tables, or such an update, has left a file without some of them.

### `DnsMeasurement.tla`

`run_test` with its two threads, over the global flag. A capture reads a packet or times out
(`Read`), tests the flag between reads (`CheckRunning`), and ends when pcapy raises
(`CaptureFails`). The ten seconds after each test are taken to be enough to read what it sent
(`Slept`). A test may raise before or after it sent (`TestRaises`): its thread ends without the ten
seconds, and the flag may be cleared with its packets unread. `Straggle` is what such a test started
and left running, like iodine when tcpdump cannot be started (`tests/iodine_test.py:26`): every
capture that is open sees it, those of later name servers too. A packet stands for all that a test
sends; `raised` is history, of which tests raised.

### `RoutingNodes.tla`, `RoutingLinks.tla`

`RoutingNodes`: one Bud timestep of `:connections` is `Read` (it reads all that arrived; nodes met
are entered after it), the timer of a node with its heartbeats is `Beat`, and `Second` lets a second
go by once every timer has fired in it. `whole` is history: no datagram was lost or overtaken and no
node restarted unnoticed. `RoutingLinks`: `NewDevice`, `Evaluated`, `Failed` and `Silent` are the four
ends of an evaluation, `Pushed`, `NodeDead` and `Check` the other rules that change links.

### `SpController.tla`, `FrostSignalling.tla`

`SpController`: `packet_in_cb` for a packet that no flow of the switch matches, hosts that move,
flows that the switch drops. The code keeps one cache for all switches (its comment at
`sp_controller.ml:30-31` says so); the model has one switch. `FrostSignalling`: hellos, lost and
reordered, clients that end (the first `sendto` that raises ends one) and start with other
addresses, a server that starts again.

### `TacticStacks.tla`

`TryTactic` is the recursive search of `stackability.ml` with its folds and accumulated list;
`NextStack`, `Connect` and `Fail` are `connect_nodes`. `Stacks` defines without recursion what the
search should find.

### `TruthExploration.tla` (with `ExplorationProofs.tla`)

The chain behind an answer: solver, pool and several kinds of tactics together. `Ask` is a Question,
`ReadNeed` the solver's reading of one need, which is answered from the cache or starts a Tactic for
each tactic that provides what is needed (`explore_truth_space_for`), each with the needs it sends
as it starts; `ReadProvided` a new truth, which goes to all who are subscribed and may have a ttl of
zero; `Recycle` the end of a script that has what it requires, with its truth or without (`unable`); `Die` a
script that ends before; `Expire` the end of a cached truth. Users, lifetimes, the inside of the
timestep and what is under way to clients are in `Solver`, threads in `TacticPool`. The tactics are
`iodine`, `openvpn` and `shared_secret` with what their `config.yml` says they provide and require,
names of domains left out.

### `Dictionaries.tla`

`Put`, what entering a key into a hash table or a row into a database table does. `AddressBook`,
`RoutingLinks` and `SpController` use it in place of the operators of the module TLC, which the
provers know nothing of.

### `Programs.tla`, `ProgramsMC.tla` (with `ProgramsProofs.tla`)

`Programs` instantiates those of the small programs above whose correctness is safety: mDNS client,
address book, measurement, routing links and controller, and the chain of tactics. `ProgramsMC` adds
the solving server and the others, and what the chain comes to under its fairness (`ChainsAnswered`),
which needs the recursive definition of a truth that cannot be had (`GivenUp`), and checks all in one run: the initial state chooses which one runs
(`program`), and the others' variables keep their initial values. The state space is the sum and not
the product of theirs. Each is checked against its own properties under its own fairness. The
theorems of `ProgramsProofs` and `ExplorationProofs` are about each program's own specification (`Mdns!Spec`,
`Book!Spec`, `Exploration!Spec` and so on), of which a behaviour of `ProgramsMC` in which that program runs is one.

## Runs

| run | instance | shows |
|---|---|---|
| `solver_needs` | 2 users with a client each that need one truth, offers for each and from the peer, 2 datagrams to a timestep | `UserInfoRespected`, `OpenNeedPending` |
| `solver_life` | a tactic and a daemon that come and go, one truth cached from the start, 1 tick, 1 datagram to a timestep | `CacheWithinTTL`, `LeaverUnsubscribed`, `KeepsTruths` (refinement of `TruthStore`), `NeedAnswered` |
| `pool_pool` | 2 requests, 2 threads, one of which may die | `ThreadServesOne`, `IdleOrWaiting`, `WaiterHasThread`, `NoLeakedSubscription`, `RequestServed` |
| `script_blocks` | the block lists of `psp/tactics`, 10 messages | `UpToDate`, `RecycledOnce`, `OrderlySurvives`, `RunsOnlyForNews` |
| `gossip_flood` | a triangle, one source with 2 values, 1 query | `OthersConverge`, `FloodEnds`, `CopiesAdvance` (refinement of `Replicas`) |
| `gossip_reconnect` | a line, 2 sources, 2 broken channels | `NoTruthMissing` |
| `mesh_join` | 3 signposts on one host with 1 fault, or one of them on a host of its own, with a port of its own or another's, without faults | `ChannelsLive`, `NeverAlone`, `MeshComplete`, `Rejoins` |
| `programs_each` | each of the programs below by itself | `AllTypeOK` and: |
| - solving server | 1 connection, 2 requests, 2 answers each | `ServesReplies` (refinement of `ReplyService`), `AnsweredLeaves` |
| - service discovery | 3 sockets, 2 opened or closed | `Converges` |
| - mDNS client | 2 instances, 3 resolutions | `TableFollows` |
| - address book | 2 accounts, 2 names, 2 screen names, 2 crashes or deletions | `RowsPaired`, `Recovers` |
| - DNS measurement | 2 name servers, 2 tests | `TraceExact` |
| - routing nodes | the server and 2 signposts, 1 loss or stop | `FullGraph`, `Forgets` |
| - routing links | 1 own link, 1 of others, lifetimes of 1 and 2 and evaluations of 0 and 2 seconds, 3 results | `NeverAbandoned` |
| - controller | 2 hosts, 3 ports, 2 moves | `Delivers` |
| - Frost signalling | 2 clients, 2 addresses, 2 losses, ends or restarts | `Settles` |
| - tactic engine | the 3 tactics of the code with their properties, any kind of result, any properties asked for | `StacksSound` |
| - truth exploration | 2 Questions, 3 tactics, 1 death or expiry | `StartedOnce`, `NoneWaitsInVain`, `ChainsAnswered` |
| `solver_signpost` | fails: | `OnlyThatSignpost` |
| `pool_fresh` | fails: | `RecycledIsFresh` |
| `gossip_echo` | fails: | `OwnTruthIsLatest` |
| `gossip_resolve` | fails: | `RemoteResolved` |

Why these bounds are enough. *Solver*: the rules join at most two tables, so two clients of two
users, a local and a remote truth and the wildcard form of one name meet every join and every key;
two datagrams to a timestep are the least in which a need and its truth share one; one tick is what a
truth takes to expire, to be collected then or not, and to be read anew. *Pool*: two
requests and two threads are the least with which a recycled thread meets a waiting request and its
own former Tactic; two messages to a queue let a stale truth and a start share it. *Script*: ten
messages are two whole requests of the longest script and what may come between them. *Gossip*: a
triangle is the shortest cycle and has two paths between any two signposts; a line is the shortest
graph on which a truth has to pass a signpost to reach another. *Mesh*: with three signposts two can
join at once, hear of each other from the one they joined and connect to each other twice; one fault
can end any of the duplicate channels, at any time. *Solving server*: two requests and two answers
are the least with which an answer to one meets the other's timer and a second callback sets a
second timer; the proof covers the rest. *Discovery*: the loop skips the entry behind a removed one,
which takes two changes and a third entry to tell from one that skips none. *Book*: two accounts
with two names of each kind are what it takes for each kind of name to clash, a second crash falls
into the repair of the first. *Routing*: two signposts besides the server connect to it at once and
are told of each other or not. *Links*: an evaluation longer and one shorter than a lifetime, an
entry that fails while the link of an earlier evaluation stands. *Controller*: a third port lets
both hosts move and one move back. *Measurement*: a second name server is what a capture of the
first could outlive to see, and what a test that raised could go on into. *Exploration*: one Question asks for what the other's tactic requires, so a
truth is generated for two clients at once, and a chain of two tactics has another beside it that
requires nothing; one death or expiry breaks either.

`CHECK_DEADLOCK FALSE` is given in every run: the clients may all leave, the bounds on requests,
truths, messages and reconnections end, and the reactor then has nothing to read. A crashed signpost
stops.

### Fairness

- `Solver`: the reactor reads every datagram in the end (loopback), alone or not, and a generation
  comes to a result, which is what the tactics and the other signposts promise; a tactic that never
  answers starves its clients by design.
- `TacticPool`: a script that was started connects. Nothing says that a tactic ever recycles, and
  `RequestServed` does not need it.
- `Gossip`: TCP delivers what it accepts while the channel stands, and the signpost that was asked
  generates the truth.
- `CommsMesh`: TCP delivers while a connection stands and tells both ends when it is gone; the
  Questions for an address are answered, connections are made or refused.
- `SolvingServer`: EventMachine fires its timers and the solver reads that a Question left. Nothing
  says that the solver ever answers.
- `ServiceDiscovery`: gobject's timer fires while it is set.
- `AddressBook`: each statement is followed by the next, and who wants the program starts it again,
  without which `Recovers` would say nothing of a program that fails at its first start. Nothing says
  that anyone ever asks for an update.
- `RoutingNodes`: the timers of nodes that run fire, and what was sent and not lost is read.
- `FrostSignalling`: the clients' timers fire, and no hello is under way for ever. Of a hello that is
  lost it says nothing: the bound on losses is what ends them.

- `TruthExploration`: needs and truths that were sent are read (loopback), and a script that has what
  it requires comes to an end, with a truth or without. A script that does not is one that dies.

The others need none: their properties are invariants and action properties.

## Proofs

The proofs hold for every value of the constants under the assumptions named in the modules, which
say only that the constants are of the right kind and a few things the code goes by:

- `SolverAssumption`: wildcards are no signposts and no users, a client asks with the user it works
  for, initial truths have a lifetime. `ScriptAssumption`: a script registers a block. `PoolAssumption`: nil is no thread and no
  request, and both are finitely many. `ServerAssumption`: each request comes on a connection.
- `MeshAssumption`: two signposts on one host have different ports. `GossipAssumption`: channels lead
  both ways and not to oneself. `ConnectedAssumption`: no group of signposts is without a channel to
  the rest, which is what `CommsMesh` brings about.
- `ProgramsAssumption`: the name servers to be measured are counted, each is given a test; what Questions ask for and
  scripts require are truths, Questions are told from Tactics, which are numbered, and the scripts
  are finitely many.

Three theorems have a hypothesis of their own, without which the code does not have the property:

- `MaxBatch = 1` in `LeaversStayAway`: a timestep that reads one datagram, as with the Bud of
  `Gemfile.lock`. If a need and its client's notice share a timestep, the deferred deletion of the
  subscriptions comes before the deferred insertion, and the client stays subscribed.
- `Fresh` in `LastValueStays`: a value that was provided, replaced and provided again within the 30
  seconds of the broadcast cache is dropped by those who have seen it.
- `Listed = {Home}` in `EveryoneConnected`: the DNS lists the domain's own signpost. If it lists
  others, two that join may each find another first, and nothing makes one of them known to the other.

`mesh_join`, `gossip_flood` and `solver_life` check the three properties where these hold, so there
are states that satisfy them.

`SolverProofs`: `TypeCorrect`; `UserIsolation` (`UserInfoRespected`), from the invariant `OnlyAsked`,
that need, observe and the subscriptions contain only requests; `CacheSound` (`CacheWithinTTL`
and `TruthsKeyed`): the clashes of keys that a timestep raises on have to be excluded among what it
stores; a row that a timestep keeps (`KeptRow`) was not read anew, hence it is the newest of its key
as before, and was alive if garbage was collected; a row it stores (`StoredRow`) was read now; and an
answer (`FlushedAlive`) is made of a truth just read or of a row that is alive, whose end the invariant
says is that which its provider gave it when it was read; `NoLostWakeup` (`OpenNeedPending`): a timestep that reads a need subscribes
its client, and finds it in the cache, finds it for another client of the same user, or generates.
The truths in a timestep are compared with the subscriptions before it, so a need read together with
its truth is answered only by the generation: this case is why the invariant names tasks and waiting
truths and not the cache. `StoreImplemented` is the refinement of `TruthStore`: an entry of the table
is determined by its key (`EntryDetermines`, `EntryKeys`, `KeyedEntries`, from `TruthsKeyed`); a
timestep removes an entry only if it is over or if one of its key is stored, and stores none that is
over (`TimestepChanges`); all other actions but the clock leave the table alone (`TableStutters`).
`LeaversStayAway` (`LeaverUnsubscribed`): what a client sent before it left is read before its
notice, or its notice is still unread (`LastWords`); the notice removes all its subscriptions, and a
timestep of one datagram that reads it reads no need of anyone (`NoticeAlone`, by counting, for
which the channels have to be finite).

`TacticScriptProofs`: type correctness, `UpToDate`, `RunsOnlyForNews`, `RecycledOnce` and
`OrderlySurvives` for every list of blocks and any number of messages. None of them is inductive. The invariant `IInv`
adds: the versions of a block, though they start at one again with every recycling, tell exactly
which of its inputs arrived after it ran (`VersionsTell`); the name of the node, which comes only
with the start of a request, is held from there to the recycling (`NameHeld`), which makes a block
that requires nothing run once for a request, and recycling happen once; in the middle of a round
either every parameter is there or a former block of the round has recycled and nothing is held
(`Looping`); the blocks gone through are up to date (`GoneThrough`).

`TacticPoolProofs`: type correctness, `ThreadServesOne`, `IdleOrWaiting` and `NoLeakedSubscription`.
A thread could be shared if it came into the pool twice, or while a request has it, or for a
request that is queued twice; so `IInv` says that the queue holds waiting requests, each once
(`Queued`), that the pool holds threads without a delegate, each once (`Idle`), that a thread has a
delegate exactly if an active request was made for it (`Serves`), and that the thread of a script
that has not connected has no part in either (`Unconnected`), which is what lets `Connect` push it.
`LeavesLast` is the order of a stopped Tactic's datagrams. Recycling stops the Tactic before it
pushes the thread, within one callback: the parts of the invariant take sessions and datagrams as
parameters, so that they can be stated of that moment, and the lemma about `ThreadReady` starts
there for `Connect` and for `HearRecycle` alike.
`WaitersCounted` (`WaiterHasThread`) counts: the same step that lets a request wait makes a thread
start (`SpawnOnNew`), a script that dies moves from one count to the other, and a thread that
connects or is recycled takes a request off the queue if there is one (`ReadyShortens`); nothing
else changes the queue or a script (`WaitersStay`).

`SolvingServerProofs`: `ServiceImplemented`, that the server implements the safety part of
`ReplyService`, for any connections, requests and numbers of answers. The invariant it rests on says
that only a Question that was made is answered, stopped or timed (`Asked`), without which an answer
would be a step from `idle`, and that the flag of a connection is set before a line says OK
(`Flagged`), without which the timer could write `FAILED` after an answer. `StatusKept`, `OneChanges`
and `AllClosed` turn what an action does to one connection into a step of the service.

`GossipProofs`: `NoneLost` (`NoTruthMissing`) and `LastValueStays` (`OthersConverge`), the safety
halves of what flooding is for, on every connected graph. For the first, `Covered` says that between
a signpost that has a truth and a neighbour without it the truth or the request for all truths
(`gimme_truths`) is under way: what a broken channel lost is requested anew by `new_channel` at both
ends. It is not inductive, because a signpost neither sends a truth back to where it came from nor
passes on what its cache has; both are right because the sender, and the signpost whose cache it is,
have it (`SendersKnow`, `CachesKnow`). When nothing is under way, the signposts that have a truth
have no neighbour without it, and by `ConnectedAssumption` they are all. The second is about order:
the cache is a set and drops what comes again, so it has to be shown that nothing old is ever taken
for new. `Ordered` says that on each channel the data of one source are in the order they were
provided (`InOrder`), that what the sender has come to is on the channel or was (`PassedOn`,
`SentByThose`), and that the cache, in spite of its expiry, tells old from new as long as there are
copies of a datum (`CacheRight`). It holds while no channel broke; after that old copies may come.

`TruthsAreCopies` (`CopiesAdvance`) is the refinement of `Replicas`, for any graph, connected or
not, and without a hypothesis. Each step has to be one of the abstract ones: only `Provide` writes, only
`Receive` changes what a signpost has of others, and of any number of sources at once
(`CopiesStep`). That a value was written at all needs `GenuineInv`: whatever a table holds or a
channel carries was provided by the one it names (`Stored`, `Carried`). That it is the next one needs
the order of `LastValueStays`: `HearsWhatWasWritten` joins the two, for values provided once on
channels that stand, and asks for no order otherwise.

`CommsMeshProofs`: `MeshTyped`, `ChannelsStayLive` (`ChannelsLive`), `NoneLeftAlone` (`NeverAlone`)
and `EveryoneConnected` (`MeshComplete`), for any number of signposts, hosts, ports, faults and
connections. The difficulty
of the first two is that a connection's two ends learn of its breaking at different times and
`channel_closed` removes channels by name. The third is the safety half of `Rejoins`, over any
number of faults: it is inductive with the first two (`TouchInv`), because the end of a connection
finds its signpost with another channel or makes it look one up, while a connection that only one
end has heard the end of is still held by the other (`Held`, `UnbindInTouch`), and because what
the listed names lead to is another signpost, so that the connection made is not closed as one to
oneself (`ConnectInTouch`). For the fourth, `CompleteInv`: while nothing has broken,
each greeting is under way or has made its channel at that end (`Standing`); everyone is connected to
the domain's signpost or looking for it (`Joined`); and of any two others, one is connected to the
other or about to be, or one of the lists of signposts that they ask the domain's signpost for is
still to be made, or is made and has the other (`Paired`). That they both join before either has its
list, so that each might be missing in the other's, is what makes `Paired` necessary: the list that
is made last is made when both greetings were heard (`InTheList`). Where `connect_to_signpost`
would reach another signpost than it was told of (`Reached`), the theorem says nothing, as
`MeshComplete` does not.

`ProgramsProofs`, each about one program, with its own invariant:

- `TableFollowsAvahi` (`TableFollows`) for the table of `mdns.py`, inductive but for types.
- `LinksNotAbandoned` (`NeverAbandoned`): an own link evaluated once has an expiry or an evaluation
  at work, over results, pushes, dead nodes and the check that removes what is over.
- `BookPaired` (`RowsPaired`): `BookInv` adds that the contact being added is one of its own, in the
  table of users and not among those left halfway, so that the second commit completes it.
- `TracesExact` (`TraceExact`): two threads and a global flag. `OneCapture` says that captures follow
  each other: none is at work but that of the name server being measured, since `run_test` waits for
  it, so the flag of one measurement is never read by the capture of another. `ReadInTime` says that
  what a capture has not read is of the test at work or of one that raised, so that a test that raises
  loses its own packets and none of an earlier one's; `Origins` that what it sees of another name
  server is of a test that raised while that one was measured; `Accounted` that each packet is in the
  trace, still to be read, or excused.
- `DamageLasts` (the first half of `Recovers`): the database lacks tables exactly since one of two
  faults and until it is deleted. The other half is liveness and left to TLC.
- `ControllerDelivers` (`Delivers`, an action property): what the cache says of a host that did not
  move unseen is where it is (`ControllerInv`), hence where the flow leads that is installed for it.

`ExplorationProofs`, about the chain of tactics behind an answer, for any tactics, Questions, truths
and failures: `TruthsReachWhoWaits` (`NoneWaitsInVain`) and `TacticsStartedOnce` (`StartedOnce`), by
one invariant (`ExplorationInv`). The first is what lets the solver do without a record of the
chains: the Tactics started when a need is read stand for all its client will ever be told of them,
so no need may be read, and no client unsubscribed, without them or the truth. The second is what
bounds the starting: Tactics grow as trees from the Questions along what is required, each
branch once. It holds through any number of expiries, where a count of the processes would
have to follow how the truths require each other. Inductive they are together with three parts: a
need under way is that of a Question that asked or of a Tactic that requires it (`Sent`), no Tactic
was started for it yet (`NotYet`), and none for a Question that did not ask (`AskedFirst`), so that a
need that is read is the first of its kind and is never sent again.
`Explored` says of `explore_truth_space_for` what it starts, `InSequence` and `OneForEach` of the
sequence it makes of a set.

Type correctness is proved and not run, except for the small programs, whose types `programs_each`
checks: `TypeCorrect` (the solver), `ScriptTypeCorrect`, `PoolTypeCorrect`, `GossipTyped`,
`MeshTyped`, `ExplorationTypeCorrect`.

Only model-checked:

- Liveness, which is out of the prover's reach: `NeedAnswered`, `RequestServed`, `FloodEnds`,
  `Rejoins`, `Converges`, `Recovers`, `FullGraph`, `Forgets`, `Settles`, `AnsweredLeaves`,
  `ChainsAnswered`, and the half of `ServesReplies` that says that no client waits for ever.
- `StacksSound`: it rests on the recursive search of `TacticStacks`, and the provers do no induction
  over data.
- `AllTypeOK`, the types of all programs in one: `ProgramsMC` reaches that recursive module. The
  types that the proofs need are parts of the invariants above.
- The properties that runs expect to fail.

## What the models show of the code

Runs that fail, each a trace of the code (details under "findings" in `PROJECT.json`):

- `OnlyThatSignpost`: the rule for subscribers by name does not look at the signpost.
- `RecycledIsFresh`: a truth for the last request reaches a script after it recycled. The script
  logs it, the thread has no delegate by then, and the signpost ends with a `NoMethodError`.
- `OwnTruthIsLatest`: on a cycle a signpost's own old truth comes back and replaces its new one.
- `RemoteResolved`: a signpost that is asked for its truth is content with another signpost's in its
  cache, and sends nothing.

Behaviour that the properties are stated around, so that they hold of the code as it is:

- Two cached truths of two providers that satisfy one need raise `KeyConstraintError`; what the
  timestep had read is lost (`aborted` in `OpenNeedPending` and `NeedAnswered`).
- A truth with a ttl of zero is delivered and does not replace the cached one of its key.
- A need starts all tactics for it even while others generate the same truth. This costs processes, but
  none is started twice for one need (`StartedOnce`), which bounds them where no truth requires
  itself, and no generation that fails leaves another's client without its own (`NoneWaitsInVain`,
  `ChainsAnswered`; `ReadNeedShared` does). Tactics that
  require each other would start each other without end; none of `psp/tactics` do.
- `local_signpost_domain` and `web_auth_url` expire 1,000,000 seconds after the start and are not
  entered again: then `iodine` and `shared_secret` start, wait for ever and hold their threads.
- A signpost that provides a value, another and the first again within the 30 seconds of the cache
  sends what the others drop (`Fresh`).
- A reconnected signpost can hand on older copies than others have (`NoTruthMissing` says what holds).
- A block that requires nothing raises in the helper if a block before it recycles in the same
  round; no script of `psp/tactics` is written so (`OrderlySurvives`).
- The first block of `psp/tactics/openvpn/tactic.rb` always recycles, so its other blocks, for the
  truth it has just asked for, never run: their truths are gone and their client has unsubscribed.
- A truth that is asked for from afar a second time within 30 seconds is not: the others have seen
  the query. `gimme_truths` exports copies of other signposts' truths, old ones too.
- A line split over two segments is lost. If it is a greeting, the connection stays without a name at
  one end for ever: no timeout ends it (`Mute` in `Rejoins`).
- Signposts are only reached where the domain's address leads to: on two hosts the mesh does not
  become complete (`Reached` in `MeshComplete`).
- A second answer before a Question stops sets a second timer, which sends from a stopped Bud
  instance; whether that raises is not specified and both are modelled (`StopQuestion`).
- A routing node that starts again before the others find it dead is not announced: its connect does
  not renew its entry and those who know it are not told of it. The comment at
  `info_collector.rb:77-78` expects otherwise; `FullGraph` is stated while `whole`. A node that is told
  of itself enters itself, despite the comment at lines 54-55.
- A link that an evaluation ends without a word for (two minutes gone, an interface the tactic does
  not support, a signpost not in its own table) is not evaluated again (`abandoned`).
- The first start of the address book that makes the database always fails, with all tables made. One
  that is killed before the last table, or an update after the database was deleted under the
  program, leaves a file without tables for good: `createDb` goes by the file (`sqliteController.py:17`),
  although its comment says that it makes the tables at the first execution, and
  `updateSocialNetTweepy` has `printContacts` make the file before it looks for it, although lines
  120-123 say that it makes a new database. Where the table of users is missing every update raises,
  at every later start. `Recovers` says exactly when that is so (`HalfMade`), that nothing but deleting
  the file ends it, and that otherwise the program becomes ready with its tables. A start killed between
  the opening and the writing of the key file leaves it empty, and no later start gets past it.
- A user whose screen name was another's, or who was being added when the program was killed, stays
  without one (`halfway`): `checkIfUserExists` finds the first row.
- A packet sent before the capture of its measurement is open is not in its trace (`early`). A test
  that raises may lose its own packets, skips the tests after it, and what it started may go on into
  the traces of the next name servers (`raised` in `TraceExact`). The
  format of the log is the first measurement's for all: `logging.basicConfig` acts once.
- A service that ends while the list is made ends the timer that makes it (`UpdateRaises`).
- A signpost that was resolved after it left stays in the table of `mdns.py` (`late`).
- A stack of tactics that fails leaves the tunnels below the tactic that failed (`engine.ml:26`).
- Entries of Frost clients that ended are never removed, and a client ends on the first error of a
  send.

## Not modelled

- The regular expressions by which tactics match a request and the filling in of `Port`, `Domain` and the like (conversion of
  names); daemons in the pool, which are started once and never recycle.
- HTTP and DNS front ends, ticket and key stores, `server`'s Unbound plug-in, configuration and log:
  blocking I/O around one question, without state that two requests share. One thing read there:
  `server/signpost_server.py:70` raises on its reply after the data was added.
- The tactics' programs and `psp/tactics` beyond the shapes of their blocks: what ssh, iodine or
  openvpn do is not in the repository.
- Devices and the console of `routing_info`: a table that rows are only added to. The graph and
  direct connections of `frost`: nothing calls the one, the messages of the other are printed.
  `tactic_engine/tactic.ml` does not compile and `server.ml` is an earlier search that prints.
- `simulation`: one thread, results are statistics. `client_resolver`: C samples around NSS and Avahi.
  Measurement scripts, Android tools, parsers: straight-line. Vendored libraries of `socialnet`, old
  code, keys, zones and media.

The core of the system is Ruby and OCaml; most of the Python in the repository is libraries that
`socialnet` vendors (Twitter, tweepy, OAuth, httplib2 for two versions of Python), which are not this
system's code. Counted over Python alone the map therefore covers little, although it covers
the Python that keeps state: `psp_python/server_discovery.py`, `psp_python/mdns.py`,
`socialnet/personalSignpost.py`, `socialnet/sqliteController.py` and `dns_measurement/dns_test.py`.

## Plan

All parts with state of their own are modelled, and every safety property of the runs but
`StacksSound` and the joint `AllTypeOK` is a theorem. What could follow:

1. An abstract specification of the pool, as a dispenser of threads that each have one owner, and of
   the mesh as a graph that only grows while nothing breaks, with the refinements proved as for
   `TruthStore`, `ReplyService` and `Replicas`.
2. Safety of the parts that are only checked for liveness: that a routing node knows only nodes that
   ran, that Frost's table holds only addresses its clients had.
3. `Rejoins` from `NeverAlone` and `ChainsAnswered` from `NoneWaitsInVain` under the fairness stated,
   if a prover for ENABLED and induction becomes available: the two invariants are what such proofs
   would start from.
