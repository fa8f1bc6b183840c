SPECIFICATION FairSpec
CONSTANTS
    t1 = t1
    t2 = t2
    Turns = {t1}
    Subs = {s1}
    Calls <- TwoCalls
    MaxParallel = 2
    StreamingTools = FALSE
    NoCall = NoCall
    NoTurn = NoTurn
CHECK_DEADLOCK FALSE
PROPERTY
    TurnsEnd
