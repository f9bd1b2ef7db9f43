SPECIFICATION TablesSpec
CONSTANTS
    t1 = t1
    t2 = t2
    p1 = p1
    p2 = p2
    d1 = d1
    d2 = d2
    NoThread = NoThread
    NoPath = NoPath
    NoFd = NoFd
    NoClient = NoClient
    Threads <- TwoThreads
    Paths <- TwoPaths
    Fds <- TwoFds
SYMMETRY Symmetric
INVARIANTS
    TablesTypeOK
    FdRouted
    CallReachesItsFile
    PathsOwnClients
