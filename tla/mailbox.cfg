SPECIFICATION Spec
CONSTANTS
    m1 = m1
    m2 = m2
    m3 = m3
    Messages = {m1, m2, m3}
    p1 = p1
    p2 = p2
    Reads = {p1, p2}
    Mailings <- MixedMailings
    NoOne = NoOne
SYMMETRY MailSymmetry
CHECK_DEADLOCK FALSE
INVARIANTS
    TypeOK
    NothingElseLost
    MarksStay
