CONSTANTS
    a = a
    b = b
    c = c
    Nodes = {a, b, c}
    Links <- Line
    Sources = {a, c}
    Values = {v1}
    Nothing = Nothing
    Fresh = FALSE
    MaxProvides = 1
    MaxAsks = 0
    MaxReconnects = 2
SPECIFICATION Spec
CHECK_DEADLOCK FALSE
INVARIANTS NoTruthMissing
