CONSTANTS
    a = a
    b = b
    c = c
    Nodes = {a, b, c}
    Links <- Triangle
    Sources = {a}
    Values = {v1, v2}
    Nothing = Nothing
    Fresh = TRUE
    MaxProvides = 2
    MaxAsks = 0
    MaxReconnects = 0
SPECIFICATION Spec
CHECK_DEADLOCK FALSE
INVARIANTS OwnTruthIsLatest
