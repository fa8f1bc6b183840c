SPECIFICATION Spec
CONSTANTS
    t1 = t1
    t2 = t2
    Turns = {t1, t2}
    Calls <- OneCall
    MaxParallel = 1
    Subs = {1, 2, 3}
    MaxReconnects = 1
    MaxBreaks = 2
    MaxMoves = 1
    NoCall = NoCall
    NoTurn = NoTurn
SYMMETRY TurnSymmetry
VIEW View
CHECK_DEADLOCK FALSE
INVARIANTS
    TypeOK
    StreamIsHeld
    EndIsHeard
    ApprovalIsShown
