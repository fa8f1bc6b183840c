SPECIFICATION Spec
CONSTANTS
    c1 = c1
    c2 = c2
    c3 = c3
    Calls = {c1, c2, c3}
    a1 = a1
    a2 = a2
    Agents = {a1, a2}
    MaxId = 3
    NoCall = NoCall
    NoOne = NoOne
SYMMETRY CallSymmetry
CHECK_DEADLOCK FALSE
INVARIANTS
    TypeOK
    IdsUnique
    ClaimsExclude
    ClaimedIsUnblocked
