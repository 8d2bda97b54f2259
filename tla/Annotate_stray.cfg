SPECIFICATION Spec
CONSTANTS
    NClnt = 2
    Rounds = 2
    MaxIter = 2
    MaxMaybe = 2
    Setups = {"none", "both"}
    Shared = Shared
    Empty = Empty
    Srvs = {0, 1}
INVARIANT NoStray
