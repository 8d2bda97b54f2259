SPECIFICATION Spec
CONSTANTS
    w1 = w1
    w2 = w2
    w3 = w3
    NoOutput = NoOutput
    NMap = 2
    NReduce = 2
    Workers = {w1, w2, w3}
    MaxCrashes = 1
    SameDevice = TRUE
    Straggling <- AllButZero
INVARIANTS CountersExact DoneMeansCorrect ExecutedOnce
PROPERTIES OutputsFinal JobSafety EveryoneExits
