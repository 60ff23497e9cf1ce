CONSTANTS
    a = a
    b = b
    c = c
    Nodes = {a, b, c}
    Listed = {a}
    Home = a
    Deployments <- Hosts
    None = None
    MaxConns = 4
SPECIFICATION FairSpec
CHECK_DEADLOCK FALSE
INVARIANTS ChannelsLive NeverAlone MeshComplete
PROPERTY Rejoins
