SPECIFICATION Spec
CONSTANTS
    r1 = r1
    Servers = {1, 2}
    Clnt = Clnt
    NoEnd = NoEnd
    MaxGen = 2
    Calls = {r1}
    CallTo = {1}
    MaxOps = 2
    MaxClntOps = 1
CHECK_DEADLOCK FALSE
INVARIANTS AckedSurvives NetworkAsAsked CutClientIsCut NeverFatal
PROPERTIES CallsReturn EveryOpEnds
