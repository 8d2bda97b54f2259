SPECIFICATION Spec
CONSTANTS
    NShards = 7
    Gids = {1, 2, 3, 4}
    MaxNum = 3
CHECK_DEADLOCK FALSE
INVARIANTS SuccessIsBalanced OnlyNeededMoves
PROPERTIES RebalanceEnds
