SPECIFICATION Spec
CONSTANTS
    t1 = t1
    t2 = t2
    Turns = {t1, t2}
    Subs = {s1}
    Calls <- TwoCalls
    MaxParallel = 2
    StreamingTools = TRUE
    NoCall = NoCall
    NoTurn = NoTurn
CHECK_DEADLOCK FALSE
INVARIANTS
    TypeOK
    SuspendedOnLiveCall
    SubscribersCanAnswer
PROPERTY
    DecisionsAreFinal
