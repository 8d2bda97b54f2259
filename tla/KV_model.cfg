SPECIFICATION Safe
CONSTANTS
    c1 = c1
    c2 = c2
    c3 = c3
    k1 = k1
    k2 = k2
    v1 = v1
    v2 = v2
    Keys = {k1}
    Values = {v1, v2}
    Empty = Empty
    NoOp = NoOp
    Clients = {c1, c2}
    MaxVersion = 1
    Ahead = 1
    GiveUp = FALSE
INVARIANT KvModelAccepts
