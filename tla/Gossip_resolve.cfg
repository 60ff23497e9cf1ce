CONSTANTS
    a = a
    b = b
    c = c
    Nodes = {a, b, c}
    Links <- Line
    Sources = {b, c}
    Values = {v1}
    Nothing = Nothing
    Fresh = FALSE
    MaxProvides = 1
    MaxAsks = 1
    MaxReconnects = 0
SPECIFICATION FairSpec
CHECK_DEADLOCK FALSE
PROPERTIES RemoteResolved
