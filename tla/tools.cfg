SPECIFICATION FairSpec
CONSTANTS
    MaxTools = 3
    MaxAttempts = 2
    Responses <- ResponsesOfThree
CHECK_DEADLOCK FALSE
INVARIANTS
    TypeOK
    ExclusiveAccess
    EndedCallsAreAnswered
PROPERTIES
    ExclusiveNotOvertaken
    RemainingResultsEnd
