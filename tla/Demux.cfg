SPECIFICATION Spec
CONSTANTS
    g1 = g1
    g2 = g2
    g3 = g3
    None = None
    Callers = {g1, g2}
    Room = 1
INVARIANTS OwnReply RepliesMatch
PROPERTIES EveryCallReturns ReaderEnds
