SPECIFICATION Safe
CONSTANTS
    w1 = w1
    w2 = w2
    w3 = w3
    NoOutput = NoOutput
    NMap = 2
    NReduce = 1
    Workers = {w1, w2}
    MaxCrashes = 1
    SameDevice = TRUE
    Straggling <- AllTasks
INVARIANT DoneMeansCorrect
