SPECIFICATION Spec
CONSTANTS
    Configs = {a, b}
    Remote = {a}
    Requests = {r1, r2, r3}
    Bodies = {a, b, Invalid}
    MaxAttempts = 3
    MayDrop = FALSE
    Invalid = Invalid
    NoConfig = NoConfig
    Timer = Timer
    NoTask = NoTask
CHECK_DEADLOCK FALSE
INVARIANTS
    DisconnectedMeansClosed
