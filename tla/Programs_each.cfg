CONSTANTS
    Connections = {c}
    Requests = {r1, r2}
    On <- MCOn
    MaxAnswers = 2
    Services = {x, y, z}
    MaxChanges = 2
    Instances = {i1, i2}
    MaxResolves = 3
    Accounts = {a1, a2}
    Names = {n1, n2}
    Screens = {s1, s2}
    MaxFaults = 2
    Runs = 2
    Tests = 2
    Nodes = {server, a, b}
    Server = server
    MaxLost = 1
    Own = {own}
    Others = {other}
    TTLs = {1, 2}
    Durations = {0, 2}
    Retry = 3
    MaxNews = 3
    Hosts = {h1, h2}
    Ports = {1, 2, 3}
    MaxMoves = 2
    Clients = {m, n}
    Addresses = {d1, d2}
    MaxTroubles = 2
    Modules <- MCModules
    Provides <- MCProvides
    Properties <- MCProperties
    Results <- MCResults
    http = http
    dns = dns
    Truths = {"connectable_ip", "shared_secret", "local_signpost_domain"}
    Scripts = {"iodine", "openvpn", "shared_secret"}
    ScriptProvides <- MCScriptProvides
    ScriptRequires <- MCScriptRequires
    Initial = {"local_signpost_domain"}
    Asks <- MCAsks
    MaxFailures = 1
SPECIFICATION AllSpec
CHECK_DEADLOCK FALSE
INVARIANTS AllTypeOK TableFollows RowsPaired TraceExact NeverAbandoned StacksSound
    StartedOnce NoneWaitsInVain
PROPERTIES
    ServesReplies AnsweredLeaves Converges Recovers FullGraph Forgets Delivers Settles
    ChainsAnswered
