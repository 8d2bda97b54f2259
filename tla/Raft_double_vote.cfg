SPECIFICATION Spec
CONSTANTS
    s1 = s1
    s2 = s2
    s3 = s3
    a = a
    b = b
    c = c
    None = None
    Server = {s1, s2, s3}
    Command = {a}
    Electable = {s1, s2}
    Appliers = {}
    Savers = {s1, s2, s3}
    MaxTerm = 1
    MaxCalls = 0
    MaxCrashes = 1
    CrashesWhenSaved = FALSE
    SnapShotInterval = 100
SYMMETRY Symmetry
CHECK_DEADLOCK FALSE
INVARIANTS ElectionSafety
