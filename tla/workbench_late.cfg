SPECIFICATION Spec
CONSTANTS
    t1 = t1
    t2 = t2
    Turns = {t1, t2}
    Calls <- OneCall
    MaxParallel = 1
    Subs = {1, 2}
    MaxReconnects = 1
    MaxBreaks = 0
    MaxMoves = 0
    NoCall = NoCall
    NoTurn = NoTurn
SYMMETRY TurnSymmetry
VIEW View
CHECK_DEADLOCK FALSE
INVARIANT
    EveryEndIsHeard
