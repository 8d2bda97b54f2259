SPECIFICATION Spec
CONSTANTS
    s1 = s1
    s2 = s2
    s3 = s3
    a = a
    b = b
    c = c
    None = None
    Server = {s1, s2, s3}
    Command = {a, b}
    Electable = {s1}
    Appliers = {s1}
    Savers = {}
    MaxTerm = 1
    MaxCalls = 2
    MaxCrashes = 0
    CrashesWhenSaved = TRUE
    SnapShotInterval = 1
SYMMETRY Symmetry
CHECK_DEADLOCK FALSE
INVARIANTS MatchIsReached
