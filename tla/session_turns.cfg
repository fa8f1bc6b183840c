SPECIFICATION FairSpec
CONSTANTS
    t1 = t1
    t2 = t2
    Turns = {t1, t2, t3}
    Calls <- MixedCalls
    Subs = {}
    MaxParallel = 2
    StreamingTools = FALSE
    NoCall = NoCall
    NoTurn = NoTurn
CHECK_DEADLOCK FALSE
INVARIANT
    OneLiveTurn
PROPERTIES
    ImplementsConversation
    SuspensionEndsByAnswer
    SessionRests
