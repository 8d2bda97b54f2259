SPECIFICATION Spec
CONSTANTS
    c1 = c1
    c2 = c2
    c3 = c3
    c4 = c4
    l1 = l1
    l2 = l2
    Keys = {l1, l2}
    Clients = {c1, c2, c3, c4}
    Values = {c1, c2, c3, c4}
    Empty = Empty
    LockNames <- TwoLocks
    MaxHolds = 2
INVARIANTS MutualExclusion
PROPERTIES ReleaseFrees EveryoneServed
