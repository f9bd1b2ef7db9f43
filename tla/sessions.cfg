SPECIFICATION SessionsSpec
CONSTANTS
    a = a
    b = b
    m1 = m1
    m2 = m2
    d1 = d1
    NoPath = NoPath
    NoClient = NoClient
    NoMR = NoMR
    NoFd = NoFd
    Paths <- TwoPaths
    MRs <- TwoMRs
    Fds <- OneFd
    MaxRestarts = 1
SYMMETRY SessionsSymmetry
CHECK_DEADLOCK FALSE
INVARIANTS
    SessionsTypeOK
    PoolOK
    MRsDisjoint
    ServerSurvives
    AnsweredElsewhere
