SPECIFICATION Spec
CONSTANTS
    c1 = c1
    c2 = c2
    c3 = c3
    k1 = k1
    k2 = k2
    v1 = v1
    v2 = v2
    Keys = {k1}
    Values = {v1}
    Empty = Empty
    NoOp = NoOp
    Clients = {c1, c2}
    MaxVersion = 1
    Ahead = 0
    GiveUp = TRUE
INVARIANTS AtMostOnce AnswerIsTrue
PROPERTIES EveryOpReturns Linearizable
