SPECIFICATION FairSpec
CONSTANTS
    Fields = {status, details, mode, ultraplan}
    Groups <- ReportGroups
    MaxPatches = 4
    status = status
    details = details
    mode = mode
    ultraplan = ultraplan
CHECK_DEADLOCK FALSE
INVARIANTS
    TypeOK
    RestMeansUpToDate
PROPERTIES
    ImplementsRegister
    EventuallyUpToDate
