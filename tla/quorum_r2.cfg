SPECIFICATION Spec
CONSTANTS
    p1 = p1
    p2 = p2
    p3 = p3
    p4 = p4
    NoPeer = NoPeer
    Peers <- ThreePeers
    InitServers <- ThreePeers
    BufSize = 2
    RepFactor = 2
    MaxWrites = 2
    MaxCrashes = 1
    MaxExpiries = 1
    MaxStarts = 1
SYMMETRY ThreeSymmetry
CHECK_DEADLOCK FALSE
INVARIANTS
    IndInv
    SuspendedBlocksWrites
