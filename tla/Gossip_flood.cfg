CONSTANTS
    a = a
    b = b
    c = c
    Nodes = {a, b, c}
    Links <- Triangle
    Sources = {a}
    Values = {v1, v2}
    Nothing = Nothing
    Fresh = TRUE
    MaxProvides = 2
    MaxAsks = 1
    MaxReconnects = 0
SPECIFICATION FairSpec
CHECK_DEADLOCK FALSE
INVARIANTS OthersConverge
PROPERTIES FloodEnds CopiesAdvance
