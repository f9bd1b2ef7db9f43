SPECIFICATION Spec
CONSTANTS
    p1 = p1
    p2 = p2
    p3 = p3
    p4 = p4
    NoPeer = NoPeer
    Peers <- FourPeers
    InitServers <- FourPeers
    BufSize = 2
    RepFactor = 3
    MaxWrites = 2
    MaxCrashes = 1
    MaxExpiries = 0
    MaxStarts = 0
SYMMETRY FourSymmetry
CHECK_DEADLOCK FALSE
INVARIANTS
    TypeOK
    CaughtUp
    AckedHeld
    Durable
